---- MODULE Spec2Model ----
(***************************************************************************)
(* A model of server.js, the D&D 5e reference-data synchroniser: the       *)
(* generic path syncResource and the enriched path (syncClasses,           *)
(* syncMonsters, syncRaces, syncSubclasses, ... which all follow one       *)
(* template), run against a MySQL store whose unique keys are those of the *)
(* schema in RunPowerShell.bat.                                            *)
(*                                                                         *)
(* A nested list of a detail document is a sequence of child natural keys; *)
(* the entry at position q carries the payload q (its value, level,        *)
(* quantity or prerequisites), so two entries of one list always differ in *)
(* payload even when they repeat a key.                                    *)
(***************************************************************************)
EXTENDS Bags, FiniteSets, Integers, Sequences, TLC

VARIABLES
  resource,    \* the resource whose endpoint is triggered in this behaviour
  remote,      \* the upstream API: [ed, items, bad], items[j] the lists of item j,
               \* bad the item whose document lacks a required field (0: none)
  store,       \* committed rows: [table -> bag of rows]
  work,        \* the rows as seen inside the connection's open transaction
  txOpen,      \* a transaction is open on the connection
  pc,          \* where the invocation stands
  conn,        \* connection.state
  endCalled,   \* connection.end has been called
  endpoints,   \* listData.results.length
  i,           \* the loop's item, 1..endpoints
  detailData,  \* the detail document of item i
  cur,         \* [tbl, pos]: the child table and list position of the loop
  processed,   \* processedConditions / processedSpells
  touched,     \* tables the open transaction has written for the item's key
  error,       \* the error the try block caught (or the promise rejected with)
  res,         \* the HTTP response sent
  queue,       \* generic path: queries queued on the connection
  promises,    \* generic path: queryPromises, each pending/resolved/rejected
  run,         \* history: number of invocations started
  edits,       \* history: upstream changes since the last invocation started
  snap,        \* history: the store when the invocation started
  clean,       \* history: no environment failure and no upstream change so far
  stable,      \* history: the previous invocation ran clean on this same remote
  attempted,   \* history: items whose detail fetch was issued
  begun,       \* history: items for which beginTransaction was called
  done,        \* history: items fully processed (committed / upsert resolved)
  writer,      \* history: [table -> [key -> transaction that last wrote it]]
  malformed,   \* history: the response of this invocation that lacked its shape
  first,       \* history: the first error that occurred in this invocation
  log,         \* history: what the current item has fetched and issued so far
  faulty,      \* history: the invocations that met a failure of their environment
  pair,        \* two requests served by one process: [alive, store, proc, solo]
  twin,        \* two requests for one enriched resource: [store, holder, met, proc]
  skill,       \* a sync of the skills resource on documents spelled out in full
  panel,       \* the control panel of public/index.html
  sent         \* history: the HTTP responses this invocation has sent

vars == <<resource, remote, store, work, txOpen, pc, conn, endCalled, endpoints,
          i, detailData, cur, processed, touched, error, res, queue, promises,
          run, edits, snap, clean, stable, attempted, begun, done, writer,
          malformed, first, log, faulty, pair, twin, skill, panel, sent>>

(***************************************************************************)
(* Bounds of the model.                                                    *)
(***************************************************************************)
MaxItems == 2      \* entries of a remote index
MaxRuns == 2       \* successive invocations of the endpoint
MaxList == 2       \* entries of one nested list
MaxKids == 2       \* nested entries of all documents of the remote together
MaxEdition == 2    \* versions of the scalar fields the upstream publishes
MaxEdits == 1      \* upstream changes between two invocations
MaxFaulty == 1     \* invocations that meet a failure of their environment
MaxInFlight == 2   \* requests of the control panel awaiting their answer
MaxSyncAll == 2    \* runs of Sync All under way together
MaxSkills == 2     \* entries of the remote index of skills
MaxParas == 2      \* paragraphs of the desc of one skill
MaxSkillRuns == 2  \* successive requests for /sync-skills

Undefined == "undefined"
Null == "null"
NoIndex == "noindex"
ChildKeys == {"a", "b"}

Resources == {"skills", "monsters", "classes", "subclasses", "races"}
Enriched == {"monsters", "classes", "subclasses", "races"}

(***************************************************************************)
(* The schema and the per-resource statements.                             *)
(***************************************************************************)
ChildTables(r) ==
  CASE r = "monsters" -> <<"monster_proficiencies", "monster_condition_immunities">>
    [] r = "classes" -> <<"class_levels", "class_spells", "class_proficiency_choices",
                          "class_starting_equipment", "class_starting_equipment_options">>
    [] r = "subclasses" -> <<"subclass_levels", "subclass_spells">>
    [] r = "races" -> <<"race_proficiencies", "race_languages", "race_traits">>
    [] OTHER -> <<>>

Range(s) == {s[x] : x \in DOMAIN s}

ChildSet(r) == Range(ChildTables(r))

Tables(r) == {r} \cup ChildSet(r)

\* UNIQUE KEY (parent natural key, child natural key) in the schema
HasUniqueKey(tn) ==
  tn \notin {"class_proficiency_choices", "class_starting_equipment",
             "class_starting_equipment_options"}

DedupsNowhere(tn) == FALSE

\* tables whose insert loop is guarded by a Set of keys already inserted
Dedups(tn) == tn \in {"monster_condition_immunities", "subclass_spells"}

\* tables keyed by the position of the entry (choice_index)
Positional(tn) ==
  tn \in {"class_proficiency_choices", "class_starting_equipment_options"}

\* tables whose rows carry a column beside the two keys
HasPayload(tn) ==
  tn \in {"monster_proficiencies", "class_levels", "class_spells",
          "class_starting_equipment", "subclass_levels", "subclass_spells"}

\* what an entry of the nested list feeding table tn can be
Elems(tn) ==
  IF Positional(tn) THEN {"a"}
  ELSE IF tn = "class_starting_equipment" THEN ChildKeys \cup {NoIndex}
  ELSE ChildKeys

(***************************************************************************)
(* Rows and SQL statements.                                                *)
(***************************************************************************)
NoError == [at |-> 0, code |-> "none", table |-> "none"]
NoRes == [status |-> 0, success |-> FALSE, count |-> 0, error |-> NoError]
NoCur == [tbl |-> 0, pos |-> 0]
NoDoc == [index |-> 0, name |-> 0, attr |-> Undefined, lists |-> <<>>, req |-> TRUE]

Err(at, code, tn) == [at |-> at, code |-> code, table |-> tn]

EmptyTables(r) == [tn \in Tables(r) |-> EmptyBag]

Rows(B, k) == {row \in BagToSet(B) : row.key = k}

RowsOf(B, k) == [row \in Rows(B, k) |-> B[row]]

AddRow(B, row) == B (+) SetToBag({row})

\* ER_DUP_ENTRY: the insert collides with the table's unique key
DupEntry(B, tn, row) ==
  /\ HasUniqueKey(tn)
  /\ \E old \in BagToSet(B) : old.key = row.key /\ old.child = row.child

DeleteNothing(B, k) == B

DeleteAll(B, k) == EmptyBag

\* DELETE FROM tn WHERE <parent key column> = k
DeleteWhere(B, k) ==
  [row \in {x \in BagToSet(B) : x.key # k} |-> B[row]]

UpdateNameOnly == {"name"}

\* the columns named after ON DUPLICATE KEY UPDATE
UpdateCols == {"name", "attr"}

UpsertNothing(B, rec) == B

\* INSERT ... ON DUPLICATE KEY UPDATE on a parent table (UNIQUE KEY `index`)
Upsert(B, rec) ==
  IF \E old \in BagToSet(B) : old.key = rec.key
    THEN LET hit == {old \in BagToSet(B) : old.key = rec.key}
             upd(old) == [c \in DOMAIN old |-> IF c \in UpdateCols THEN rec[c] ELSE old[c]]
         IN  DeleteWhere(B, rec.key) (+) SetToBag({upd(old) : old \in hit})
    ELSE AddRow(B, rec)

(***************************************************************************)
(* The record mappers.                                                     *)
(***************************************************************************)
OrNull(v) == IF v = Undefined THEN Null ELSE v

\* monsterRecord, classRecord, ... and the generic recordBuilder's newRecord
ParentRecord(doc) ==
  [key |-> doc.index, name |-> doc.name, attr |-> OrNull(doc.attr)]

\* profRecord, levelRecord, choiceRecord, spellRecord, ... for the entry at q
ChildRecord(tn, doc, q) ==
  [key |-> doc.index,
   child |-> IF Positional(tn) THEN q - 1 ELSE doc.lists[tn][q],
   payload |-> IF Positional(tn) \/ HasPayload(tn) THEN q ELSE 0]

(***************************************************************************)
(* The upstream API.                                                       *)
(***************************************************************************)
NoLists(r) == [tn \in ChildSet(r) |-> <<>>]

Kids(rem, r) ==
  Cardinality({x \in (DOMAIN rem.items) \X ChildSet(r) \X (1..(MaxList + 1)) :
                 x[3] <= Len(rem.items[x[1]][x[2]])})

DocOfReversed(j) ==
  [index |-> Len(remote.items) + 1 - j, name |-> remote.ed,
   attr |-> IF remote.ed = 1 THEN Undefined ELSE "x",
   lists |-> remote.items[Len(remote.items) + 1 - j],
   req |-> j # remote.bad]

\* GET <item.url> (and the sub-documents its URLs name) for item j
DocOf(j) ==
  [index |-> j, name |-> remote.ed,
   attr |-> IF remote.ed = 1 THEN Undefined ELSE "x",
   lists |-> remote.items[j],
   req |-> j # remote.bad]

RemoveAt(s, q) == [x \in 1..(Len(s) - 1) |-> IF x < q THEN s[x] ELSE s[x + 1]]

Idle == pc \in {"idle", "done"} /\ queue = <<>>

\* the upstream changes while no request runs and another request may follow
MayEdit == Idle /\ run < MaxRuns /\ (run = 0 \/ edits < MaxEdits)

Edited(rem) ==
  /\ remote' = rem
  /\ edits' = IF run = 0 THEN 0 ELSE edits + 1
  /\ clean' = FALSE
  /\ UNCHANGED <<resource, pair, twin, skill, panel, sent, faulty, malformed, first, log, store, work, txOpen, pc, conn, endCalled, endpoints, i,
                 detailData, cur, processed, touched, error, res, queue, promises,
                 run, snap, stable, attempted, begun, done, writer>>

\* the upstream lists a new item
AddItem ==
  /\ MayEdit
  /\ Len(remote.items) < MaxItems
  /\ Edited([remote EXCEPT !.items = Append(@, NoLists(resource))])

\* the upstream drops the last item of its index
DropItem ==
  /\ MayEdit
  /\ Len(remote.items) > 0
  /\ Edited([remote EXCEPT !.items = SubSeq(@, 1, Len(@) - 1),
                          !.bad = IF @ = Len(remote.items) THEN 0 ELSE @])

\* the upstream adds an entry to a nested list of an item
AddEntry ==
  /\ MayEdit
  /\ Kids(remote, resource) < MaxKids
  /\ \E j \in DOMAIN remote.items, tn \in ChildSet(resource) :
       /\ Len(remote.items[j][tn]) < MaxList
       /\ \E c \in Elems(tn) :
            Edited([remote EXCEPT !.items[j][tn] = Append(@, c)])

\* the upstream removes an entry from a nested list of an item
DropEntry ==
  /\ MayEdit
  /\ \E j \in DOMAIN remote.items, tn \in ChildSet(resource) :
       \E q \in DOMAIN remote.items[j][tn] :
         Edited([remote EXCEPT !.items[j][tn] = RemoveAt(@, q)])

\* the upstream publishes a document without a field the record needs
BreakItem ==
  /\ MayEdit
  /\ run > 0
  /\ remote.bad = 0
  /\ \E j \in DOMAIN remote.items : Edited([remote EXCEPT !.bad = j])

\* the upstream changes the scalar fields of its documents
NewEdition ==
  /\ MayEdit
  /\ run > 0
  /\ \E e \in (1..MaxEdition) \ {remote.ed} : Edited([remote EXCEPT !.ed = e])

(***************************************************************************)
(* Two requests for different resources served by the one server process:  *)
(* each invocation has its own connection, both write the one database.    *)
(* A world is what an invocation sees and changes: its own state and the   *)
(* store. pair.solo[p] is the world of invocation p had it run alone.      *)
(***************************************************************************)
MaxPairItems == 2     \* entries of each remote index when two requests overlap

PairProcs == {1, 2}

\* GET /sync-skills (syncResource) and GET /sync-monsters (syncMonsters)
PairResource(p) == IF p = 1 THEN "skills" ELSE "monsters"

PairTables == Tables(PairResource(1)) \cup Tables(PairResource(2))

NoProc ==
  [pc |-> "idle", i |-> 0, n |-> 0, res |-> NoRes, error |-> NoError,
   queue |-> <<>>, promises |-> <<>>, tx |-> FALSE, k |-> 0,
   work |-> [tn \in PairTables |-> {}]]

NoWorld == [proc |-> NoProc, store |-> [tn \in PairTables |-> {}]]

PairInit ==
  [alive |-> TRUE,
   store |-> NoWorld.store,
   proc |-> [p \in PairProcs |-> NoProc],
   solo |-> [p \in PairProcs |-> NoWorld]]

(***************************************************************************)
(* Two requests for the same enriched resource: each invocation has its    *)
(* own connection, both write the one database, whose transactions are     *)
(* atomic and isolated. twin.store holds the committed rows, twin.holder   *)
(* the transaction that has written the rows of a parent key and has not   *)
(* ended, twin.proc[p].work the rows of that key as its transaction sees   *)
(* them.                                                                   *)
(***************************************************************************)
NoTwin ==
  [pc |-> "idle", i |-> 0, n |-> 0, doc |-> NoDoc, todo |-> <<>>,
   work |-> <<>>, res |-> NoRes, error |-> NoError]

TwinInit ==
  [store |-> EmptyTables(resource), holder |-> [k \in 1..MaxItems |-> 0],
   met |-> FALSE, proc |-> [p \in PairProcs |-> NoTwin]]

(***************************************************************************)
(* The skills resource with its documents spelled out, and the control     *)
(* panel: their states before anything happens.                            *)
(***************************************************************************)
NoSkill ==
  [pc |-> "idle", run |-> 0, docs |-> <<>>, at |-> 0, rows |-> {},
   res |-> [status |-> 0, success |-> FALSE, message |-> <<>>]]

PanelInit ==
  [loop |-> [r \in 1..MaxSyncAll |-> 0], successCount |-> [r \in 1..MaxSyncAll |-> 0],
   inFlight |-> {}, disabled |-> {}, status |-> "none"]

(***************************************************************************)
(* The state after the server has started: nothing stored, no request.     *)
(***************************************************************************)
Init ==
  /\ resource \in Resources
  /\ remote = [ed |-> 1, items |-> <<>>, bad |-> 0]
  /\ store = EmptyTables(resource)
  /\ work = EmptyTables(resource)
  /\ txOpen = FALSE
  /\ pc = "idle"
  /\ conn = "disconnected"
  /\ endCalled = FALSE
  /\ endpoints = 0
  /\ i = 0
  /\ detailData = NoDoc
  /\ cur = NoCur
  /\ processed = {}
  /\ touched = {}
  /\ error = NoError
  /\ res = NoRes
  /\ queue = <<>>
  /\ promises = <<>>
  /\ run = 0
  /\ edits = 0
  /\ snap = EmptyTables(resource)
  /\ clean = FALSE
  /\ stable = FALSE
  /\ attempted = {}
  /\ begun = {}
  /\ done = {}
  /\ writer = [tn \in Tables(resource) |-> [k \in 1..MaxItems |-> <<0, 0>>]]
  /\ malformed = "none"
  /\ first = NoError
  /\ log = <<>>
  /\ faulty = {}
  /\ pair = PairInit
  /\ twin = TwinInit
  /\ skill = NoSkill
  /\ panel = PanelInit
  /\ sent = 0

(***************************************************************************)
(* An invocation of the endpoint: the part both paths share.               *)
(***************************************************************************)
NTables == Len(ChildTables(resource))

TableAt(n) == ChildTables(resource)[n]

TxId == <<run, i>>

Stamp(w, tabs, k, id) ==
  [tn \in DOMAIN w |-> IF tn \in tabs THEN [w[tn] EXCEPT ![k] = id] ELSE w[tn]]

\* app.get('/sync-...'): the request arrives, createConnection
Start ==
  /\ Idle
  /\ run < MaxRuns
  /\ run' = run + 1
  /\ edits' = 0
  /\ snap' = store
  /\ stable' = (run >= 1 /\ clean)
  /\ clean' = TRUE
  /\ pc' = "connect"
  /\ conn' = "disconnected"
  /\ endCalled' = FALSE
  /\ endpoints' = 0
  /\ i' = 0
  /\ detailData' = NoDoc
  /\ cur' = NoCur
  /\ processed' = {}
  /\ touched' = {}
  /\ error' = NoError
  /\ res' = NoRes
  /\ promises' = <<>>
  /\ attempted' = {}
  /\ begun' = {}
  /\ done' = {}
  /\ malformed' = "none"
  /\ first' = NoError
  /\ log' = <<>>
  /\ sent' = 0
  /\ UNCHANGED <<resource, pair, twin, skill, panel, faulty, remote, store, work, txOpen, queue, writer>>

\* the environment may fail this invocation: the database, the network, the API
MayFail == malformed = "none" /\ Cardinality(faulty \ {run}) < MaxFaulty

\* the error a rejected await throws into the catch block
Throw(e, env) ==
  /\ env => MayFail
  /\ faulty' = IF env THEN faulty \cup {run} ELSE faulty
  /\ error' = e
  /\ first' = IF first = NoError THEN e ELSE first
  /\ log' = <<>>
  /\ pc' = "catch"
  /\ clean' = (clean /\ ~env)
  /\ detailData' = NoDoc
  /\ cur' = NoCur
  /\ processed' = {}

\* connection.connect succeeds
ConnectOk ==
  /\ pc = "connect"
  /\ conn' = "authenticated"
  /\ pc' = "fetchList"
  /\ UNCHANGED <<resource, pair, twin, skill, panel, sent, faulty, malformed, first, log, remote, store, work, txOpen, endCalled, endpoints, i,
                 detailData, cur, processed, touched, error, res, queue, promises,
                 run, edits, snap, clean, stable, attempted, begun, done, writer>>

\* connection.connect fails: before a socket is there, and the state stays
\* 'disconnected', or in the handshake, on a socket that is 'connected'
ConnectFail ==
  /\ pc = "connect"
  /\ \/ conn' = "disconnected" /\ Throw(Err(0, "ECONNREFUSED", "none"), TRUE)
     \/ conn' = "connected" /\ Throw(Err(0, "ER_ACCESS_DENIED_ERROR", "none"), TRUE)
  /\ UNCHANGED <<resource, pair, twin, skill, panel, sent, malformed, remote, store, work, txOpen, endCalled, endpoints,
                 i, touched, res, queue, promises, run, edits, snap, stable,
                 attempted, begun, done, writer>>

\* where the loop over the index goes after item n
AfterItem(n, len) ==
  IF n < len THEN "fetchDetail"
  ELSE IF resource \in Enriched THEN "respond" ELSE "awaitAll"

\* fetch /api/<resource> and read listData.results
FetchListOk ==
  /\ pc = "fetchList"
  /\ endpoints' = Len(remote.items)
  /\ i' = 1
  /\ pc' = AfterItem(0, Len(remote.items))
  /\ UNCHANGED <<resource, pair, twin, skill, panel, sent, faulty, malformed, first, log, remote, store, work, txOpen, conn, endCalled,
                 detailData, cur, processed, touched, error, res, queue, promises,
                 run, edits, snap, clean, stable, attempted, begun, done, writer>>

FetchListFail ==
  /\ pc = "fetchList"
  /\ Throw(Err(0, "FetchError", "none"), TRUE)
  /\ UNCHANGED <<resource, pair, twin, skill, panel, sent, malformed, remote, store, work, txOpen, conn, endCalled, endpoints,
                 i, touched, res, queue, promises, run, edits, snap, stable,
                 attempted, begun, done, writer>>

\* the index has no results array: iterating it throws a TypeError
MalformedList ==
  /\ pc = "fetchList"
  /\ malformed' = "list"
  /\ Throw(Err(0, "TypeError", "none"), TRUE)
  /\ UNCHANGED <<resource, pair, twin, skill, panel, sent, remote, store, work, txOpen, conn, endCalled, endpoints,
                 i, touched, res, queue, promises, run, edits, snap, stable,
                 attempted, begun, done, writer>>

RespCountLoopVar == i

\* the message of the success response carries this count
RespCount == IF resource \in Enriched THEN endpoints ELSE Len(promises)

\* res.status(200).json({success: true, ...})
Respond ==
  /\ pc = "respond"
  /\ res' = [status |-> 200, success |-> TRUE, count |-> RespCount, error |-> NoError]
  /\ pc' = "finally"
  /\ sent' = sent + 1
  /\ UNCHANGED <<resource, pair, twin, skill, panel, faulty, malformed, first, log, remote, store, work, txOpen, conn, endCalled, endpoints,
                 i, detailData, cur, processed, touched, error, queue, promises, run,
                 edits, snap, clean, stable, attempted, begun, done, writer>>

\* catch (error): res.status(500).json({success: false, message: error.message})
Catch ==
  /\ pc = "catch"
  /\ res' = [status |-> 500, success |-> FALSE, count |-> 0, error |-> error]
  /\ pc' = "finally"
  /\ sent' = sent + 1
  /\ UNCHANGED <<resource, pair, twin, skill, panel, faulty, malformed, first, log, remote, store, work, txOpen, conn, endCalled, endpoints,
                 i, detailData, cur, processed, touched, error, queue, promises, run,
                 edits, snap, clean, stable, attempted, begun, done, writer>>

EnqueueFront(q, cmd) == <<cmd>> \o q

\* connection.query, connection.end: the command joins the connection's queue
Enqueue(q, cmd) == Append(q, cmd)

Quit == [item |-> 0, rec |-> ParentRecord(NoDoc)]

MustEndOnSuccess == conn # "disconnected" /\ error = NoError

\* the guard of the finally block
MustEnd == conn # "disconnected"

\* finally: connection.end() unless the connection is 'disconnected'
Finally ==
  /\ pc = "finally"
  /\ IF MustEnd
       THEN endCalled' = TRUE /\ queue' = Enqueue(queue, Quit)
       ELSE UNCHANGED <<endCalled, queue>>
  /\ pc' = "done"
  /\ UNCHANGED <<resource, pair, twin, skill, panel, sent, faulty, malformed, first, log, remote, store, work, txOpen, conn, endpoints, i,
                 detailData, cur, processed, touched, error, res, promises, run,
                 edits, snap, clean, stable, attempted, begun, done, writer>>

(***************************************************************************)
(* The enriched path: one transaction per item.                            *)
(***************************************************************************)
HasLevelsNever == FALSE

\* the handler fetches the item's level table (class_levels, subclass_levels)
HasLevels == resource \in {"classes", "subclasses"}

\* if (detailData.spells): the class document names a spell list
HasSpellsUrl == resource = "classes" /\ detailData.lists["class_spells"] # <<>>

\* fetch item.url
FetchDetailOk ==
  /\ pc = "fetchDetail"
  /\ resource \in Enriched
  /\ attempted' = attempted \cup {i}
  /\ detailData' = DocOf(i)
  /\ pc' = IF HasLevels THEN "fetchLevels" ELSE "begin"
  /\ log' = <<[op |-> "detail", tn |-> "none"]>>
  /\ UNCHANGED <<resource, pair, twin, skill, panel, sent, faulty, malformed, first, remote, store, work, txOpen, conn, endCalled, endpoints,
                 i, cur, processed, touched, error, res, queue, promises, run, edits,
                 snap, clean, stable, begun, done, writer>>

FetchDetailFail ==
  /\ pc = "fetchDetail"
  /\ resource \in Enriched
  /\ attempted' = attempted \cup {i}
  /\ Throw(Err(i, "FetchError", "none"), TRUE)
  /\ UNCHANGED <<resource, pair, twin, skill, panel, sent, malformed, remote, store, work, txOpen, conn, endCalled, endpoints,
                 i, touched, res, queue, promises, run, edits, snap, stable, begun,
                 done, writer>>

\* fetch detailData.class_levels / detailData.subclass_levels
FetchLevelsOk ==
  /\ pc = "fetchLevels"
  /\ pc' = IF HasSpellsUrl THEN "fetchSpells" ELSE "begin"
  /\ log' = Append(log, [op |-> "levels", tn |-> "none"])
  /\ UNCHANGED <<resource, pair, twin, skill, panel, sent, faulty, malformed, first, remote, store, work, txOpen, conn, endCalled, endpoints,
                 i, detailData, cur, processed, touched, error, res, queue, promises,
                 run, edits, snap, clean, stable, attempted, begun, done, writer>>

\* fetch detailData.spells
FetchSpellsOk ==
  /\ pc = "fetchSpells"
  /\ pc' = "begin"
  /\ log' = Append(log, [op |-> "spells", tn |-> "none"])
  /\ UNCHANGED <<resource, pair, twin, skill, panel, sent, faulty, malformed, first, remote, store, work, txOpen, conn, endCalled, endpoints,
                 i, detailData, cur, processed, touched, error, res, queue, promises,
                 run, edits, snap, clean, stable, attempted, begun, done, writer>>

FetchAuxFail ==
  /\ pc \in {"fetchLevels", "fetchSpells"}
  /\ Throw(Err(i, "FetchError", "none"), TRUE)
  /\ UNCHANGED <<resource, pair, twin, skill, panel, sent, malformed, remote, store, work, txOpen, conn, endCalled, endpoints,
                 i, touched, res, queue, promises, run, edits, snap, stable,
                 attempted, begun, done, writer>>

\* the detail response is JSON of another shape: no index, no nested lists
MalformedDetail ==
  /\ pc = "fetchDetail"
  /\ MayFail
  /\ faulty' = faulty \cup {run}
  /\ resource \in Enriched
  /\ malformed = "none"
  /\ malformed' = "detail"
  /\ clean' = FALSE
  /\ attempted' = attempted \cup {i}
  /\ detailData' = [DocOf(i) EXCEPT !.req = FALSE, !.lists = NoLists(resource)]
  /\ log' = <<[op |-> "detail", tn |-> "none"]>>
  /\ pc' = IF HasLevels THEN "fetchLevels" ELSE "begin"
  /\ UNCHANGED <<resource, pair, twin, skill, panel, sent, first, remote, store, work, txOpen, conn, endCalled,
                 endpoints, i, cur, processed, touched, error, res, queue, promises,
                 run, edits, snap, stable, begun, done, writer>>

\* the levels response is JSON that is no array of levels
MalformedLevels ==
  /\ pc = "fetchLevels"
  /\ MayFail
  /\ faulty' = faulty \cup {run}
  /\ malformed = "none"
  /\ malformed' = "levels"
  /\ clean' = FALSE
  /\ log' = Append(log, [op |-> "levels", tn |-> "none"])
  /\ pc' = IF HasSpellsUrl THEN "fetchSpells" ELSE "begin"
  /\ UNCHANGED <<resource, pair, twin, skill, panel, sent, first, remote, store, work, txOpen, conn, endCalled,
                 endpoints, i, detailData, cur, processed, touched, error, res, queue,
                 promises, run, edits, snap, stable, attempted, begun, done, writer>>

\* the spells response has no results: spellsData stays []
MalformedSpells ==
  /\ pc = "fetchSpells"
  /\ MayFail
  /\ faulty' = faulty \cup {run}
  /\ malformed = "none"
  /\ malformed' = "spells"
  /\ clean' = FALSE
  /\ detailData' = [detailData EXCEPT !.lists["class_spells"] = <<>>]
  /\ log' = Append(log, [op |-> "spells", tn |-> "none"])
  /\ pc' = "begin"
  /\ UNCHANGED <<resource, pair, twin, skill, panel, sent, first, remote, store, work, txOpen, conn, endCalled,
                 endpoints, i, cur, processed, touched, error, res, queue, promises,
                 run, edits, snap, stable, attempted, begun, done, writer>>

OpensNothing == FALSE

\* connection.beginTransaction opens a transaction
OpensTransaction == TRUE

BeginOk ==
  /\ pc = "begin"
  /\ begun' = begun \cup {i}
  /\ txOpen' = OpensTransaction
  /\ work' = IF OpensTransaction THEN store ELSE work
  /\ touched' = {}
  /\ pc' = "parent"
  /\ log' = Append(log, [op |-> "begin", tn |-> "none"])
  /\ UNCHANGED <<resource, pair, twin, skill, panel, sent, faulty, malformed, first, remote, store, conn, endCalled, endpoints, i, detailData,
                 cur, processed, error, res, queue, promises, run, edits, snap,
                 clean, stable, attempted, done, writer>>

\* beginTransaction's callback gets err: reject(err), no rollback
BeginFail ==
  /\ pc = "begin"
  /\ begun' = begun \cup {i}
  /\ Throw(Err(i, "ER_BEGIN", "none"), TRUE)
  /\ UNCHANGED <<resource, pair, twin, skill, panel, sent, malformed, remote, store, work, txOpen, conn, endCalled, endpoints,
                 i, touched, res, queue, promises, run, edits, snap, stable,
                 attempted, done, writer>>

\* the rows a statement of the connection reads
View(tn) == IF txOpen THEN work[tn] ELSE store[tn]

\* a statement of the connection leaves table tn as B
Exec(tn, B) ==
  IF txOpen
    THEN /\ work' = [work EXCEPT ![tn] = B]
         /\ touched' = touched \cup {tn}
         /\ UNCHANGED <<store, writer>>
    ELSE /\ store' = [store EXCEPT ![tn] = B]
         /\ writer' = Stamp(writer, {tn}, detailData.index, TxId)
         /\ UNCHANGED <<work, touched>>

\* the next entry the insert loops visit from (n, q) on
RECURSIVE Adv(_, _)
Adv(n, q) ==
  IF n > NTables THEN [tbl |-> n, pos |-> 0]
  ELSE IF q <= Len(detailData.lists[TableAt(n)]) THEN [tbl |-> n, pos |-> q]
  ELSE Adv(n + 1, 1)

GoTo(nxt) ==
  /\ cur' = nxt
  /\ pc' = IF nxt.tbl > NTables THEN "commit" ELSE "insert"

\* queryAsync(connection, <parent>Query, Object.values(<parent>Record))
ParentUpsert ==
  /\ pc = "parent"
  /\ detailData.req
  /\ Exec(resource, Upsert(View(resource), ParentRecord(detailData)))
  /\ cur' = [tbl |-> 1, pos |-> 0]
  /\ pc' = "delete"
  /\ log' = Append(log, [op |-> "upsert", tn |-> resource])
  /\ UNCHANGED <<resource, pair, twin, skill, panel, sent, faulty, malformed, first, remote, txOpen, conn, endCalled, endpoints, i, detailData,
                 processed, error, res, queue, promises, run, edits, snap, clean,
                 stable, attempted, begun, done>>

\* queryAsync(connection, "DELETE FROM <child> WHERE <parent key> = ?", [index])
DeleteChild ==
  /\ pc = "delete"
  /\ Exec(TableAt(cur.tbl), DeleteWhere(View(TableAt(cur.tbl)), detailData.index))
  /\ IF cur.tbl < NTables
       THEN cur' = [tbl |-> cur.tbl + 1, pos |-> 0] /\ pc' = "delete"
       ELSE GoTo(Adv(1, 1))
  /\ processed' = {}
  /\ log' = Append(log, [op |-> "delete", tn |-> TableAt(cur.tbl)])
  /\ UNCHANGED <<resource, pair, twin, skill, panel, sent, faulty, malformed, first, remote, txOpen, conn, endCalled, endpoints, i, detailData,
                 error, res, queue, promises, run, edits, snap, clean, stable,
                 attempted, begun, done>>

Entry == detailData.lists[TableAt(cur.tbl)][cur.pos]

\* the loop body issues no query for this entry
Skips ==
  \/ TableAt(cur.tbl) = "class_starting_equipment" /\ Entry = NoIndex
  \/ Dedups(TableAt(cur.tbl)) /\ Entry \in processed

Advance ==
  LET nxt == Adv(cur.tbl, cur.pos + 1)
  IN  /\ GoTo(nxt)
      /\ processed' = IF nxt.tbl # cur.tbl THEN {}
                      ELSE IF Dedups(TableAt(cur.tbl)) THEN processed \cup {Entry}
                      ELSE processed

\* an entry the loop passes over: no equipment index, or a key in the Set
SkipChild ==
  /\ pc = "insert"
  /\ malformed # "levels"
  /\ Skips
  /\ Advance
  /\ UNCHANGED <<resource, pair, twin, skill, panel, sent, faulty, malformed, first, log, remote, store, work, txOpen, conn, endCalled, endpoints,
                 i, detailData, touched, error, res, queue, promises, run, edits,
                 snap, clean, stable, attempted, begun, done, writer>>

\* queryAsync(connection, "INSERT INTO <child> ...", <record>)
InsertChild ==
  /\ pc = "insert"
  /\ malformed # "levels"
  /\ ~Skips
  /\ LET tn == TableAt(cur.tbl)
         row == ChildRecord(tn, detailData, cur.pos)
     IN  /\ ~DupEntry(View(tn), tn, row)
         /\ Exec(tn, AddRow(View(tn), row))
  /\ Advance
  /\ log' = Append(log, [op |-> "insert", tn |-> TableAt(cur.tbl)])
  /\ UNCHANGED <<resource, pair, twin, skill, panel, sent, faulty, malformed, first, remote, txOpen, conn, endCalled, endpoints, i, detailData,
                 error, res, queue, promises, run, edits, snap, clean, stable,
                 attempted, begun, done>>

\* the error thrown into catch (e) inside the transaction callback
Reject(e, env) ==
  /\ env => MayFail
  /\ faulty' = IF env THEN faulty \cup {run} ELSE faulty
  /\ error' = e
  /\ first' = IF first = NoError THEN e ELSE first
  /\ log' = <<>>
  /\ pc' = "rollback"
  /\ clean' = (clean /\ ~env)
  /\ cur' = NoCur
  /\ processed' = {}

\* building the parent record throws: a field it reads is absent
MapFail ==
  /\ pc = "parent"
  /\ ~detailData.req
  /\ Reject(Err(i, "TypeError", "none"), FALSE)
  /\ UNCHANGED <<resource, pair, twin, skill, panel, sent, malformed, remote, store, work, txOpen, conn, endCalled,
                 endpoints, i, detailData, touched, res, queue, promises, run, edits,
                 snap, stable, attempted, begun, done, writer>>

\* for (const level of levelsData) throws: levelsData is not iterable
LevelsThrow ==
  /\ pc \in {"insert", "commit"}
  /\ malformed = "levels"
  /\ Reject(Err(i, "TypeError", "none"), FALSE)
  /\ UNCHANGED <<resource, pair, twin, skill, panel, sent, malformed, remote, store, work, txOpen, conn, endCalled,
                 endpoints, i, detailData, touched, res, queue, promises, run, edits,
                 snap, stable, attempted, begun, done, writer>>

\* the insert violates the child table's unique key
InsertDup ==
  /\ pc = "insert"
  /\ malformed # "levels"
  /\ ~Skips
  /\ LET tn == TableAt(cur.tbl)
     IN  /\ DupEntry(View(tn), tn, ChildRecord(tn, detailData, cur.pos))
         /\ Reject(Err(i, "ER_DUP_ENTRY", tn), FALSE)
  /\ UNCHANGED <<resource, pair, twin, skill, panel, sent, malformed, remote, store, work, txOpen, conn, endCalled, endpoints,
                 i, detailData, touched, res, queue, promises, run, edits, snap,
                 stable, attempted, begun, done, writer>>

\* a statement of the transaction fails in the database
QueryFail ==
  /\ \/ pc \in {"parent", "delete"}
     \/ pc = "insert" /\ ~Skips /\ malformed # "levels"
  /\ Reject(Err(i, "ER_QUERY", "none"), TRUE)
  /\ UNCHANGED <<resource, pair, twin, skill, panel, sent, malformed, remote, store, work, txOpen, conn, endCalled, endpoints,
                 i, detailData, touched, res, queue, promises, run, edits, snap,
                 stable, attempted, begun, done, writer>>

\* connection.commit succeeds: resolve()
CommitOk ==
  /\ pc = "commit"
  /\ malformed # "levels"
  /\ store' = IF txOpen THEN work ELSE store
  /\ writer' = IF txOpen THEN Stamp(writer, touched, detailData.index, TxId) ELSE writer
  /\ txOpen' = FALSE
  /\ work' = EmptyTables(resource)
  /\ touched' = {}
  /\ done' = done \cup {i}
  /\ i' = i + 1
  /\ pc' = AfterItem(i, endpoints)
  /\ detailData' = NoDoc
  /\ cur' = NoCur
  /\ log' = <<>>
  /\ UNCHANGED <<resource, pair, twin, skill, panel, sent, faulty, malformed, first, remote, conn, endCalled, endpoints,
                 processed, error, res, queue, promises, run, edits, snap, clean,
                 stable, attempted, begun>>

\* connection.commit(err => ...) gets err: rollback, then reject(err)
CommitFail ==
  /\ pc = "commit"
  /\ malformed # "levels"
  /\ Reject(Err(i, "ER_COMMIT", "none"), TRUE)
  /\ UNCHANGED <<resource, pair, twin, skill, panel, sent, malformed, remote, store, work, txOpen, conn, endCalled, endpoints,
                 i, detailData, touched, res, queue, promises, run, edits, snap,
                 stable, attempted, begun, done, writer>>

AfterRollbackKeeps == IF txOpen THEN work ELSE store

\* the committed rows once the transaction is rolled back
AfterRollback == store

\* connection.rollback(() => reject(e))
Rollback ==
  /\ pc = "rollback"
  /\ store' = AfterRollback
  /\ txOpen' = FALSE
  /\ work' = EmptyTables(resource)
  /\ touched' = {}
  /\ pc' = "catch"
  /\ detailData' = NoDoc
  /\ UNCHANGED <<resource, pair, twin, skill, panel, sent, faulty, malformed, first, log, remote, conn, endCalled, endpoints, i, cur,
                 processed, error, res, queue, promises, run, edits, snap, clean,
                 stable, attempted, begun, done, writer>>

(***************************************************************************)
(* The generic path: syncResource.                                         *)
(***************************************************************************)
\* fetch item.url, recordBuilder, connection.query, queryPromises.push
GFetchDetailOk ==
  /\ pc = "fetchDetail"
  /\ resource \notin Enriched
  /\ DocOf(i).req
  /\ attempted' = attempted \cup {i}
  /\ detailData' = NoDoc
  /\ queue' = Enqueue(queue, [item |-> i, rec |-> ParentRecord(DocOf(i))])
  /\ promises' = Append(promises, "pending")
  /\ i' = i + 1
  /\ pc' = AfterItem(i, endpoints)
  /\ UNCHANGED <<resource, pair, twin, skill, panel, sent, faulty, malformed, first, log, remote, store, work, txOpen, conn, endCalled, endpoints,
                 cur, processed, touched, error, res, run, edits, snap, clean,
                 stable, begun, done, writer>>

GFetchDetailFail ==
  /\ pc = "fetchDetail"
  /\ resource \notin Enriched
  /\ attempted' = attempted \cup {i}
  /\ Throw(Err(i, "FetchError", "none"), TRUE)
  /\ UNCHANGED <<resource, pair, twin, skill, panel, sent, malformed, remote, store, work, txOpen, conn, endCalled, endpoints,
                 i, touched, res, queue, promises, run, edits, snap, stable, begun,
                 done, writer>>

\* recordBuilder throws: a field it reads is absent
GMapFail ==
  /\ pc = "fetchDetail"
  /\ resource \notin Enriched
  /\ ~DocOf(i).req
  /\ attempted' = attempted \cup {i}
  /\ Throw(Err(i, "TypeError", "none"), FALSE)
  /\ UNCHANGED <<resource, pair, twin, skill, panel, sent, malformed, remote, store, work, txOpen, conn, endCalled,
                 endpoints, i, touched, res, queue, promises, run, edits, snap,
                 stable, begun, done, writer>>

\* the detail response is JSON of another shape: recordBuilder throws
GMalformedDetail ==
  /\ pc = "fetchDetail"
  /\ resource \notin Enriched
  /\ malformed = "none"
  /\ malformed' = "detail"
  /\ attempted' = attempted \cup {i}
  /\ Throw(Err(i, "TypeError", "none"), TRUE)
  /\ UNCHANGED <<resource, pair, twin, skill, panel, sent, remote, store, work, txOpen, conn, endCalled, endpoints,
                 i, touched, res, queue, promises, run, edits, snap, stable, begun,
                 done, writer>>

\* the connection runs the query at the head of its queue: resolve(results)
DbExecOk ==
  /\ queue # <<>>
  /\ Head(queue).item # 0
  /\ LET q == Head(queue)
     IN  /\ store' = [store EXCEPT ![resource] = Upsert(@, q.rec)]
         /\ writer' = Stamp(writer, {resource}, q.rec.key, <<run, q.item>>)
         /\ promises' = [promises EXCEPT ![q.item] = "resolved"]
         /\ done' = done \cup {q.item}
  /\ queue' = Tail(queue)
  /\ UNCHANGED <<resource, pair, twin, skill, panel, sent, faulty, malformed, first, log, remote, work, txOpen, pc, conn, endCalled, endpoints, i,
                 detailData, cur, processed, touched, error, res, run, edits, snap,
                 clean, stable, attempted, begun>>

\* the query at the head of the queue fails: reject(new Error(...))
DbExecFail ==
  /\ queue # <<>>
  /\ MayFail
  /\ faulty' = faulty \cup {run}
  /\ Head(queue).item # 0
  /\ promises' = [promises EXCEPT ![Head(queue).item] = "rejected"]
  /\ clean' = FALSE
  /\ queue' = Tail(queue)
  /\ first' = IF first = NoError THEN Err(Head(queue).item, "ER_QUERY", "none") ELSE first
  /\ UNCHANGED <<resource, pair, twin, skill, panel, sent, malformed, log, remote, store, work, txOpen, pc, conn, endCalled,
                 endpoints, i, detailData, cur, processed, touched, error, res, run,
                 edits, snap, stable, attempted, begun, done, writer>>

\* Promise.all(queryPromises) has been called: every promise has a handler
Observed == i > endpoints

\* the query at the head of the queue fails while its promise has no handler:
\* an unhandled rejection, on which the runtime ends the process
DbExecCrash ==
  /\ queue # <<>>
  /\ MayFail
  /\ faulty' = faulty \cup {run}
  /\ Head(queue).item # 0
  /\ ~Observed
  /\ promises' = [promises EXCEPT ![Head(queue).item] = "rejected"]
  /\ first' = IF first = NoError THEN Err(Head(queue).item, "ER_QUERY", "none") ELSE first
  /\ clean' = FALSE
  /\ queue' = <<>>
  /\ conn' = "disconnected"
  /\ pc' = "crashed"
  /\ UNCHANGED <<resource, pair, twin, skill, panel, sent, malformed, log, remote, store, work, txOpen, endCalled,
                 endpoints, i, detailData, cur, processed, touched, error, res, run,
                 edits, snap, stable, attempted, begun, done, writer>>

\* the connection reaches the quit packet that connection.end queued
DbQuit ==
  /\ queue # <<>>
  /\ Head(queue).item = 0
  /\ conn' = "disconnected"
  /\ queue' = Tail(queue)
  /\ UNCHANGED <<resource, pair, twin, skill, panel, sent, faulty, malformed, first, log, remote, store, work, txOpen, pc, endCalled, endpoints, i,
                 detailData, cur, processed, touched, error, res, promises, run,
                 edits, snap, clean, stable, attempted, begun, done, writer>>

Rejected == {n \in DOMAIN promises : promises[n] = "rejected"}

Min(S) == CHOOSE n \in S : \A m \in S : n <= m

\* await Promise.all(queryPromises) resolves
AwaitAllOk ==
  /\ pc = "awaitAll"
  /\ \A n \in DOMAIN promises : promises[n] = "resolved"
  /\ pc' = "respond"
  /\ UNCHANGED <<resource, pair, twin, skill, panel, sent, faulty, malformed, first, log, remote, store, work, txOpen, conn, endCalled, endpoints,
                 i, detailData, cur, processed, touched, error, res, queue, promises,
                 run, edits, snap, clean, stable, attempted, begun, done, writer>>

\* await Promise.all(queryPromises) rejects with the first rejection
AwaitAllFail ==
  /\ pc = "awaitAll"
  /\ Rejected # {}
  /\ Throw(Err(Min(Rejected), "ER_QUERY", "none"), TRUE)
  /\ UNCHANGED <<resource, pair, twin, skill, panel, sent, malformed, remote, store, work, txOpen, conn, endCalled, endpoints,
                 i, touched, res, queue, promises, run, edits, snap, stable,
                 attempted, begun, done, writer>>

Next ==
  \/ AddItem \/ DropItem \/ AddEntry \/ DropEntry \/ BreakItem \/ NewEdition
  \/ Start \/ ConnectOk \/ ConnectFail \/ FetchListOk \/ FetchListFail
  \/ FetchDetailOk \/ FetchDetailFail \/ FetchLevelsOk \/ FetchSpellsOk \/ FetchAuxFail
  \/ MalformedList \/ MalformedDetail \/ MalformedLevels \/ MalformedSpells
  \/ MapFail \/ LevelsThrow \/ GMapFail \/ GMalformedDetail \/ DbExecCrash
  \/ BeginOk \/ BeginFail \/ ParentUpsert \/ DeleteChild \/ SkipChild \/ InsertChild
  \/ InsertDup \/ QueryFail \/ CommitOk \/ CommitFail \/ Rollback
  \/ GFetchDetailOk \/ GFetchDetailFail \/ DbExecOk \/ DbExecFail \/ DbQuit
  \/ AwaitAllOk \/ AwaitAllFail
  \/ Respond \/ Catch \/ Finally

Spec == Init /\ [][Next]_vars

TypeOK ==
  /\ pc \in {"idle", "connect", "fetchList", "fetchDetail", "fetchLevels",
             "fetchSpells", "begin", "parent", "delete", "insert", "commit",
             "rollback", "awaitAll", "respond", "catch", "finally", "done",
             "crashed"}
  /\ run \in 0..MaxRuns

(***************************************************************************)
(* Two overlapping requests. Every await of a handler is a step; the code  *)
(* between two awaits (catch, respond, finally) runs without interruption. *)
(***************************************************************************)
single == <<resource, remote, store, work, txOpen, pc, conn, endCalled, endpoints,
            i, detailData, cur, processed, touched, error, res, queue, promises,
            run, edits, snap, clean, stable, attempted, begun, done, writer,
            malformed, first, log, faulty, sent>>

\* what invocation p sees: its own state and the shared store
PairWorld(p) == [proc |-> pair.proc[p], store |-> pair.store]

\* the state of invocation p; while the process lives it is that of its solo run
Solo(p) == pair.solo[p].proc

\* invocation p takes a step: w is the world it leaves in the process, g in
\* its solo run
Move(p, w, g) ==
  /\ pair' = IF pair.alive
               THEN [pair EXCEPT !.proc[p] = w.proc, !.store = w.store, !.solo[p] = g]
               ELSE [pair EXCEPT !.solo[p] = g]
  /\ UNCHANGED <<single, twin, skill, panel>>

\* the statements of one item, in the order the handler awaits them
PairStatements(r) ==
  <<[op |-> "upsert", tn |-> r]>>
    \o [x \in 1..Len(ChildTables(r)) |-> [op |-> "delete", tn |-> ChildTables(r)[x]]]
    \o [x \in 1..Len(ChildTables(r)) |-> [op |-> "insert", tn |-> ChildTables(r)[x]]]

\* res.status(...).json(...), then the finally block
Responded(w, status, e) ==
  [w EXCEPT !.proc.pc = "done", !.proc.tx = FALSE,
            !.proc.res = [status |-> status, success |-> status = 200,
                          count |-> IF status = 200 THEN w.proc.n ELSE 0,
                          error |-> e]]

\* app.get('/sync-...'): the request arrives
PairStart(p) ==
  /\ Solo(p).pc = "idle"
  /\ LET F(w) == [w EXCEPT !.proc.pc = "connect"]
     IN  Move(p, F(PairWorld(p)), F(pair.solo[p]))

PairConnectOk(p) ==
  /\ Solo(p).pc = "connect"
  /\ LET F(w) == [w EXCEPT !.proc.pc = "fetchList"]
     IN  Move(p, F(PairWorld(p)), F(pair.solo[p]))

PairConnectFail(p) ==
  /\ Solo(p).pc = "connect"
  /\ LET F(w) == Responded(w, 500, Err(0, "ECONNREFUSED", "none"))
     IN  Move(p, F(PairWorld(p)), F(pair.solo[p]))

Listed(w) ==
  [w EXCEPT !.proc.n = MaxPairItems, !.proc.i = 1, !.proc.pc = "fetchDetail"]

PairFetchListOk(p) ==
  /\ Solo(p).pc = "fetchList"
  /\ Move(p, Listed(PairWorld(p)), Listed(pair.solo[p]))

PairFetchListFail(p) ==
  /\ Solo(p).pc = "fetchList"
  /\ LET F(w) == Responded(w, 500, Err(0, "FetchError", "none"))
     IN  Move(p, F(PairWorld(p)), F(pair.solo[p]))

\* the detail is fetched; the generic path queues the upsert and goes on
Detailed(w, r) ==
  IF r \in Enriched
    THEN [w EXCEPT !.proc.pc = "begin"]
    ELSE [w EXCEPT !.proc.queue = Enqueue(@, w.proc.i),
                   !.proc.promises = Append(@, "pending"),
                   !.proc.i = @ + 1,
                   !.proc.pc = IF w.proc.i < w.proc.n THEN "fetchDetail"
                               ELSE "awaitAll"]

PairFetchDetailOk(p) ==
  /\ Solo(p).pc = "fetchDetail"
  /\ LET F(w) == Detailed(w, PairResource(p))
     IN  Move(p, F(PairWorld(p)), F(pair.solo[p]))

PairFetchDetailFail(p) ==
  /\ Solo(p).pc = "fetchDetail"
  /\ LET F(w) == Responded(w, 500, Err(w.proc.i, "FetchError", "none"))
     IN  Move(p, F(PairWorld(p)), F(pair.solo[p]))

Begun(w) ==
  [w EXCEPT !.proc.tx = TRUE, !.proc.work = w.store, !.proc.k = 1,
            !.proc.pc = "statement"]

PairBeginOk(p) ==
  /\ Solo(p).pc = "begin"
  /\ Move(p, Begun(PairWorld(p)), Begun(pair.solo[p]))

PairBeginFail(p) ==
  /\ Solo(p).pc = "begin"
  /\ LET F(w) == Responded(w, 500, Err(w.proc.i, "ER_BEGIN", "none"))
     IN  Move(p, F(PairWorld(p)), F(pair.solo[p]))

\* the k-th statement of the item runs inside the transaction
Stated(w, r) ==
  LET st == PairStatements(r)[w.proc.k]
  IN  [w EXCEPT !.proc.work[st.tn] = IF st.op = "delete" THEN @ \ {w.proc.i}
                                     ELSE @ \cup {w.proc.i},
                !.proc.k = @ + 1,
                !.proc.pc = IF w.proc.k < Len(PairStatements(r)) THEN "statement"
                            ELSE "commit"]

PairStatementOk(p) ==
  /\ Solo(p).pc = "statement"
  /\ LET F(w) == Stated(w, PairResource(p))
     IN  Move(p, F(PairWorld(p)), F(pair.solo[p]))

Rejecting(w, e) == [w EXCEPT !.proc.pc = "rollback", !.proc.error = e]

PairStatementFail(p) ==
  /\ Solo(p).pc = "statement"
  /\ LET F(w) == Rejecting(w, Err(w.proc.i, "ER_QUERY", "none"))
     IN  Move(p, F(PairWorld(p)), F(pair.solo[p]))

\* the commit publishes the tables the transaction wrote; after the last
\* item the handler responds 200
Committed(w, r) ==
  LET wrote == {PairStatements(r)[x].tn : x \in DOMAIN PairStatements(r)}
      pub == [w EXCEPT !.store = [tn \in PairTables |->
                                   IF tn \in wrote THEN w.proc.work[tn] ELSE @[tn]],
                       !.proc.tx = FALSE,
                       !.proc.i = @ + 1,
                       !.proc.pc = "fetchDetail"]
  IN  IF w.proc.i < w.proc.n THEN pub ELSE Responded(pub, 200, NoError)

PairCommitOk(p) ==
  /\ Solo(p).pc = "commit"
  /\ LET F(w) == Committed(w, PairResource(p))
     IN  Move(p, F(PairWorld(p)), F(pair.solo[p]))

PairCommitFail(p) ==
  /\ Solo(p).pc = "commit"
  /\ LET F(w) == Rejecting(w, Err(w.proc.i, "ER_COMMIT", "none"))
     IN  Move(p, F(PairWorld(p)), F(pair.solo[p]))

PairRollback(p) ==
  /\ Solo(p).pc = "rollback"
  /\ LET F(w) == Responded(w, 500, w.proc.error)
     IN  Move(p, F(PairWorld(p)), F(pair.solo[p]))

\* the connection of a generic invocation runs the upsert at the head of its queue
Executed(w, r) ==
  [w EXCEPT !.store[r] = @ \cup {Head(w.proc.queue)},
            !.proc.promises[Head(w.proc.queue)] = "resolved",
            !.proc.queue = Tail(@)]

PairExecOk(p) ==
  /\ Solo(p).queue # <<>>
  /\ LET F(w) == Executed(w, PairResource(p))
     IN  Move(p, F(PairWorld(p)), F(pair.solo[p]))

ExecFailed(w) ==
  [w EXCEPT !.proc.promises[Head(w.proc.queue)] = "rejected",
            !.proc.queue = Tail(@)]

PairExecFail(p) ==
  /\ Solo(p).queue # <<>>
  /\ Move(p, ExecFailed(PairWorld(p)), ExecFailed(pair.solo[p]))

Crashed(pr) ==
  [pr EXCEPT !.pc = "crashed", !.promises[Head(pr.queue)] = "rejected",
             !.queue = <<>>]

\* the upsert fails while its promise has no handler: the unhandled rejection
\* ends the process, and with it every request the process is serving
PairExecCrash(p) ==
  /\ pair.alive
  /\ Solo(p).queue # <<>>
  /\ ~(Solo(p).i > Solo(p).n)
  /\ pair' = [pair EXCEPT !.alive = FALSE, !.proc[p] = Crashed(@),
                          !.solo[p].proc = Crashed(@)]
  /\ UNCHANGED <<single, twin, skill, panel>>

\* await Promise.all(queryPromises): the first rejection, or every result
Awaited(w) ==
  LET rej == {x \in DOMAIN w.proc.promises : w.proc.promises[x] = "rejected"}
  IN  IF rej # {} THEN Responded(w, 500, Err(Min(rej), "ER_QUERY", "none"))
      ELSE Responded(w, 200, NoError)

PairAwaitAll(p) ==
  /\ Solo(p).pc = "awaitAll"
  /\ \/ \E x \in DOMAIN Solo(p).promises : Solo(p).promises[x] = "rejected"
     \/ \A x \in DOMAIN Solo(p).promises : Solo(p).promises[x] = "resolved"
  /\ Move(p, Awaited(PairWorld(p)), Awaited(pair.solo[p]))

NextPair ==
  \E p \in PairProcs :
    \/ PairStart(p) \/ PairConnectOk(p) \/ PairConnectFail(p)
    \/ PairFetchListOk(p) \/ PairFetchListFail(p)
    \/ PairFetchDetailOk(p) \/ PairFetchDetailFail(p)
    \/ PairBeginOk(p) \/ PairBeginFail(p)
    \/ PairStatementOk(p) \/ PairStatementFail(p)
    \/ PairCommitOk(p) \/ PairCommitFail(p) \/ PairRollback(p)
    \/ PairExecOk(p) \/ PairExecFail(p) \/ PairExecCrash(p) \/ PairAwaitAll(p)

InitPair == Init /\ resource = PairResource(1)

SpecPair == InitPair /\ [][NextPair]_vars

(***************************************************************************)
(* Two overlapping requests for the same enriched resource. The statements *)
(* of an item's transaction touch only the rows of the item's key; the     *)
(* first of them, the parent upsert, waits while another transaction that  *)
(* has written that key is open.                                           *)
(***************************************************************************)
\* the statements of one item's transaction, in the order the handler awaits
\* them; an entry whose key the Set already holds issues none
TwinStatements(doc) ==
  LET RECURSIVE Inserts(_)
      Inserts(n) ==
        IF n > NTables THEN <<>>
        ELSE [q \in 1..Len(doc.lists[TableAt(n)]) |->
                [op |-> "insert", tn |-> TableAt(n), q |-> q]] \o Inserts(n + 1)
      Issued(st) ==
        ~(Dedups(st.tn) /\ \E q2 \in 1..(st.q - 1) :
                             doc.lists[st.tn][q2] = doc.lists[st.tn][st.q])
  IN  <<[op |-> "upsert", tn |-> resource, q |-> 0]>>
        \o [x \in 1..NTables |-> [op |-> "delete", tn |-> TableAt(x), q |-> 0]]
        \o SelectSeq(Inserts(1), Issued)

\* app.get('/sync-monsters'): the request arrives, connects and fetches the list
TwinStart(p) ==
  /\ twin.proc[p].pc = "idle"
  /\ twin' = [twin EXCEPT !.proc[p] =
               IF Len(remote.items) = 0
                 THEN [@ EXCEPT !.pc = "done",
                                !.res = [NoRes EXCEPT !.status = 200, !.success = TRUE]]
                 ELSE [@ EXCEPT !.pc = "fetchDetail", !.i = 1,
                                !.n = Len(remote.items)]]
  /\ UNCHANGED <<single, pair, skill, panel>>

\* fetch(monsterItem.url)
TwinFetchDetail(p) ==
  /\ twin.proc[p].pc = "fetchDetail"
  /\ twin' = [twin EXCEPT !.proc[p].doc = DocOf(twin.proc[p].i),
                          !.proc[p].pc = "begin"]
  /\ UNCHANGED <<single, pair, skill, panel>>

\* connection.beginTransaction
TwinBegin(p) ==
  /\ twin.proc[p].pc = "begin"
  /\ twin' = [twin EXCEPT !.proc[p].todo = TwinStatements(twin.proc[p].doc),
                          !.proc[p].pc = "statement",
                          !.met = @ \/ twin.holder[twin.proc[p].doc.index] # 0]
  /\ UNCHANGED <<single, pair, skill, panel>>

\* the next statement of the transaction runs
TwinStatement(p) ==
  LET pr == twin.proc[p]
      st == Head(pr.todo)
      key == pr.doc.index
      view == IF st.op = "upsert"
                THEN [tn \in Tables(resource) |-> RowsOf(twin.store[tn], key)]
                ELSE pr.work
      B == view[st.tn]
      row == ChildRecord(st.tn, pr.doc, st.q)
      after == CASE st.op = "upsert" -> Upsert(B, ParentRecord(pr.doc))
                 [] st.op = "delete" -> DeleteWhere(B, key)
                 [] st.op = "insert" -> AddRow(B, row)
  IN  /\ pr.pc = "statement"
      /\ st.op = "upsert" => twin.holder[key] = 0
      /\ st.op = "insert" => ~DupEntry(B, st.tn, row)
      /\ twin' = [twin EXCEPT
                    !.holder[key] = p,
                    !.proc[p].work = [view EXCEPT ![st.tn] = after],
                    !.proc[p].todo = Tail(@),
                    !.proc[p].pc = IF Len(pr.todo) = 1 THEN "commit" ELSE "statement"]
      /\ UNCHANGED <<single, pair, skill, panel>>

\* the insert violates the child table's unique key: catch (e)
TwinInsertDup(p) ==
  LET pr == twin.proc[p]
      st == Head(pr.todo)
  IN  /\ pr.pc = "statement"
      /\ st.op = "insert"
      /\ DupEntry(pr.work[st.tn], st.tn, ChildRecord(st.tn, pr.doc, st.q))
      /\ twin' = [twin EXCEPT !.proc[p].pc = "rollback",
                              !.proc[p].error = Err(pr.i, "ER_DUP_ENTRY", st.tn)]
      /\ UNCHANGED <<single, pair, skill, panel>>

\* connection.commit: the rows of the key become the committed ones; after
\* the last item the handler responds 200
TwinCommit(p) ==
  LET pr == twin.proc[p]
      key == pr.doc.index
  IN  /\ pr.pc = "commit"
      /\ twin' = [twin EXCEPT
                    !.store = [tn \in Tables(resource) |->
                                 DeleteWhere(twin.store[tn], key) (+) pr.work[tn]],
                    !.holder[key] = 0,
                    !.proc[p] =
                      IF pr.i < pr.n
                        THEN [pr EXCEPT !.i = @ + 1, !.doc = NoDoc, !.todo = <<>>,
                                        !.work = <<>>, !.pc = "fetchDetail"]
                        ELSE [pr EXCEPT !.doc = NoDoc, !.todo = <<>>, !.work = <<>>,
                                        !.pc = "done",
                                        !.res = [NoRes EXCEPT !.status = 200,
                                                              !.success = TRUE,
                                                              !.count = pr.n]]]
      /\ UNCHANGED <<single, pair, skill, panel>>

\* connection.rollback(() => reject(e)), then the 500 of the catch block
TwinRollback(p) ==
  LET pr == twin.proc[p]
  IN  /\ pr.pc = "rollback"
      /\ twin' = [twin EXCEPT
                    !.holder[pr.doc.index] = 0,
                    !.proc[p] = [pr EXCEPT !.doc = NoDoc, !.todo = <<>>, !.work = <<>>,
                                           !.pc = "done",
                                           !.res = [NoRes EXCEPT !.status = 500,
                                                                 !.error = pr.error]]]
      /\ UNCHANGED <<single, pair, skill, panel>>

\* the upstream is edited before the two requests arrive, never after
NextTwin ==
  \/ (\A p \in PairProcs : twin.proc[p].pc = "idle") /\ (AddItem \/ AddEntry)
  \/ \E p \in PairProcs :
       \/ TwinStart(p) \/ TwinFetchDetail(p) \/ TwinBegin(p) \/ TwinStatement(p)
       \/ TwinInsertDup(p) \/ TwinCommit(p) \/ TwinRollback(p)

InitTwin == Init /\ resource = "monsters"

SpecTwin == InitTwin /\ [][NextTwin]_vars

(***************************************************************************)
(* What the claims speak of.                                               *)
(***************************************************************************)
Items == 1..Len(remote.items)

\* the remote is the one the current invocation started on
SameRemote == edits = 0

\* no response without the expected shape was taken for data
NoneMistaken == malformed # "spells"

\* the entries of a nested list that name a child natural key
Keyed(tn, list) == {q \in DOMAIN list : list[q] # NoIndex}

\* the child natural key of the entry at position q
KeyOf(tn, list, q) == IF Positional(tn) THEN q - 1 ELSE list[q]

\* no child natural key is listed twice
NoRepeat(tn, list) ==
  \A q1, q2 \in Keyed(tn, list) :
    KeyOf(tn, list, q1) = KeyOf(tn, list, q2) => q1 = q2

\* the tables the specification names as keeping the first entry of a key
FirstWins(tn) == tn \in {"monster_condition_immunities", "subclass_spells"}

\* the entries a replacement keeps: every keyed one, the first of each key
\* where the first entry wins
Kept(tn, list) ==
  {q \in Keyed(tn, list) :
     FirstWins(tn) => \A q2 \in 1..(q - 1) : list[q2] # list[q]}

\* the child rows a document stands for
Image(tn, doc) ==
  LET rowAt(q) == ChildRecord(tn, doc, q)
      rows == {rowAt(q) : q \in Kept(tn, doc.lists[tn])}
  IN  [row \in rows |->
         Cardinality({q \in Kept(tn, doc.lists[tn]) : rowAt(q) = row})]

ChildKeysOf(B, k) == {row.child : row \in Rows(B, k)}

\* C1: when item i of an enriched sync fails, the items before it are
\* committed with the rows of their documents, nothing stored under item i
\* or a later item has changed, no later item was fetched or begun, and the
\* response is the 500 carrying item i's error.
FailFast ==
  (resource \in Enriched /\ pc = "done" /\ SameRemote /\ NoneMistaken
     /\ error # NoError /\ i >= 1)
  => /\ res.status = 500 /\ ~res.success /\ res.error = error /\ error.at = i
     /\ done = 1..(i - 1)
     /\ attempted = 1..i
     /\ begun \subseteq 1..i
     /\ \A j \in 1..(i - 1) :
          /\ RowsOf(store[resource], j) = SetToBag({ParentRecord(DocOf(j))})
          /\ \A tn \in ChildSet(resource) :
               RowsOf(store[tn], j) = Image(tn, DocOf(j))
     /\ \A j \in i..MaxItems, tn \in Tables(resource) :
          RowsOf(store[tn], j) = RowsOf(snap[tn], j)

FailFastWitness ==
  /\ resource \in Enriched /\ pc = "done" /\ SameRemote
  /\ error = Err(2, "ER_COMMIT", "none")
  /\ \E tn \in ChildSet(resource) :
       /\ remote.items[1][tn] # <<>>
       /\ remote.items[2][tn] # <<>>
       /\ Rows(store[tn], 1) # {}

\* C2: in the committed store the parent row of a key and the child rows of
\* that key in every child table were last written by the same transaction.
AtomicParentAndChildren ==
  resource \in Enriched =>
    \A k \in 1..MaxItems, tn \in ChildSet(resource) :
      writer[tn][k] = writer[resource][k]

AtomicWitness ==
  /\ resource \in Enriched /\ txOpen /\ pc = "commit" /\ run = 2
  /\ Rows(store[resource], detailData.index) # {}
  /\ \E tn \in ChildSet(resource) :
       /\ Rows(store[tn], detailData.index) # {}
       /\ work[tn] # store[tn]

\* C3: once an item is committed, each child table holds for its key exactly
\* the entries its document lists (documents that list no key twice), each
\* once, whatever the table held for that key before.
ChildReplacement ==
  (resource \in Enriched /\ SameRemote /\ NoneMistaken) =>
    \A j \in done, tn \in ChildSet(resource) :
      NoRepeat(tn, remote.items[j][tn]) =>
        /\ RowsOf(store[tn], j) = Image(tn, DocOf(j))
        /\ \A row \in Rows(store[tn], j) : store[tn][row] = 1

ChildReplacementWitness ==
  /\ resource \in Enriched /\ SameRemote /\ pc = "done" /\ run = 2
  /\ \E j \in done, tn \in ChildSet(resource) :
       /\ NoRepeat(tn, remote.items[j][tn])
       /\ ChildKeysOf(snap[tn], j) \ ChildKeysOf(store[tn], j) # {}
       /\ ChildKeysOf(snap[tn], j) \cap ChildKeysOf(store[tn], j) # {}

\* C4: a sync that follows a sync which met no environment failure, on an
\* unchanged remote, leaves every table as the first sync left it.
Idempotence ==
  (stable /\ SameRemote /\ NoneMistaken) => store = snap

IdempotenceWitness ==
  /\ stable /\ SameRemote /\ pc = "done" /\ res.status = 200
  /\ done = 1..MaxItems
  /\ \E tn \in Tables(resource) \ {resource} : store[tn] # EmptyBag

\* C5: once a sync has processed an item, the parent table holds exactly one
\* row for its key and every column of it has the value mapped from the
\* document just processed.
UpsertCorrect ==
  SameRemote =>
    \A j \in done :
      RowsOf(store[resource], j) = SetToBag({ParentRecord(DocOf(j))})

UpsertCorrectWitness ==
  /\ SameRemote /\ pc = "done" /\ run = 2
  /\ \E j \in done :
       /\ Rows(snap[resource], j) # {}
       /\ \A old \in Rows(snap[resource], j) :
            old.name # remote.ed /\ old.attr # OrNull(DocOf(j).attr)

\* C6: every parent table holds at most one row per natural key and every
\* child table at most one row per (parent key, child key).
UniqueRows ==
  \A tn \in Tables(resource) :
    \A r1, r2 \in BagToSet(store[tn]) :
      /\ store[tn][r1] = 1
      /\ (r1.key = r2.key /\ (tn # resource => r1.child = r2.child)) => r1 = r2

\* C7: a sync that met no environment failure commits every item, and each
\* child key a document lists, once or several times, has exactly one row.
DedupEverywhere ==
  (resource \in Enriched /\ pc = "done" /\ clean /\ remote.bad = 0) =>
    /\ res.status = 200
    /\ \A j \in Items, tn \in ChildSet(resource) :
         \A q \in Keyed(tn, remote.items[j][tn]) :
           \E row \in Rows(store[tn], j) :
             /\ row.child = KeyOf(tn, remote.items[j][tn], q)
             /\ store[tn][row] = 1
             /\ \A other \in Rows(store[tn], j) :
                  other.child = row.child => other = row

\* no list but those of the two tables lists a key twice
PlainListsRepeatFree ==
  \A j \in Items, tn \in ChildSet(resource) :
    ~FirstWins(tn) => NoRepeat(tn, remote.items[j][tn])

\* C8: in monster_condition_immunities and subclass_spells a repeated child
\* key never raises a duplicate-key error, a sync whose only repeats are in
\* those lists succeeds, and each key has one row, built from its first entry.
DedupFirstWins ==
  /\ error.code = "ER_DUP_ENTRY" => ~FirstWins(error.table)
  /\ (resource \in Enriched /\ pc = "done" /\ clean /\ remote.bad = 0
        /\ PlainListsRepeatFree)
       => res.status = 200
  /\ (resource \in Enriched /\ SameRemote /\ NoneMistaken) =>
       \A j \in done, tn \in ChildSet(resource) :
         FirstWins(tn) => RowsOf(store[tn], j) = Image(tn, DocOf(j))

DedupFirstWinsWitness ==
  /\ pc = "done" /\ SameRemote /\ res.status = 200
  /\ \E j \in done :
       /\ \E tn \in ChildSet(resource) :
            /\ FirstWins(tn)
            /\ ~NoRepeat(tn, remote.items[j][tn])
            /\ Cardinality(Rows(store[tn], j)) = 1

SuccessMeansAll ==
  (res.status = 200 /\ SameRemote) =>
    /\ res.success
    /\ done = Items
    /\ res.count = Cardinality(done)
    /\ res.count = Len(remote.items)
    /\ ~txOpen

SuccessMeansAllWitness ==
  /\ res.status = 200 /\ SameRemote /\ res.count = MaxItems
  /\ resource \notin Enriched

(***************************************************************************)
(* Failure reporting.                                                      *)
(***************************************************************************)
\* the invocation is over: the handler returned, or the process ended
Over == pc \in {"done", "crashed"}

\* C11: an invocation in which any step failed ends with an HTTP 500 whose
\* body has success false and a message; it never ends with a 200 or with
\* no response at all.
FailureMeans500 ==
  (Over /\ first # NoError) =>
    /\ res.status = 500
    /\ ~res.success
    /\ res.error # NoError

\* C12: the error a 500 response carries is the first error that occurred
\* in the invocation.
FirstErrorReported ==
  (pc = "done" /\ res.status = 500) => res.error = first

\* C13: a mapping error on one item fails that item only: when the one error
\* of an invocation is the mapping error of an item, every other item of the
\* index has been processed.
MappingErrorIsLocal ==
  (pc = "done" /\ clean /\ queue = <<>> /\ remote.bad # 0
     /\ first = Err(remote.bad, "TypeError", "none"))
    => done = Items \ {remote.bad}

\* C14: a remote response without the expected shape makes the sync report
\* failure: it is never taken for data, the item it belongs to is not
\* committed and no stored row of that item is deleted.
MalformedMeansFailure ==
  (pc = "done" /\ malformed # "none") =>
    /\ res.status = 500
    /\ i \notin done
    /\ i >= 1 => \A tn \in Tables(resource) :
                   RowsOf(store[tn], i) = RowsOf(snap[tn], i)

(***************************************************************************)
(* The order of the work of one invocation.                                *)
(***************************************************************************)
\* C15 as stated: in the generic path the detail fetch of item i+1 may be
\* in flight while the detail fetch of item i has not completed.
FetchesOverlap ==
  (resource \notin Enriched /\ pc = "fetchDetail" /\ i < endpoints) =>
    ENABLED (Next /\ i' = i + 1 /\ attempted' = attempted)

\* C15: in the generic path the detail fetches run one at a time in index
\* order: the fetch of item i is issued when the fetch of every earlier item
\* has completed and its upsert has been issued; only the upserts overlap
\* the later fetches, and the connection executes them in index order.
FetchesInTurn ==
  resource \notin Enriched =>
    /\ pc = "fetchDetail" => attempted = 1..(i - 1) /\ Len(promises) = i - 1
    /\ \A a, b \in DOMAIN queue :
         (a < b /\ queue[b].item # 0) =>
           queue[a].item # 0 /\ queue[a].item < queue[b].item
    /\ \A j, k \in DOMAIN promises :
         (j < k /\ promises[k] # "pending") => promises[j] # "pending"

FetchesInTurnWitness ==
  /\ resource \notin Enriched
  /\ pc = "fetchDetail" /\ i = 2
  /\ promises = <<"pending">> /\ Len(queue) = 1

\* the items whose own fetch, mapping or upsert failed in this invocation
Failing == ({first.at, error.at} \cup Rejected) \ {0}

\* C16: in the generic path an error on one item fails that item only: once
\* the connection has drained, every other item of the index has had its
\* upsert issued and executed, its row is persisted, and the response is
\* the failure.
OthersStillUpserted ==
  (resource \notin Enriched /\ pc = "done" /\ queue = <<>> /\ SameRemote
     /\ first # NoError /\ first.at # 0) =>
    /\ res.status = 500
    /\ \A j \in Items \ Failing :
         /\ j \in DOMAIN promises /\ promises[j] = "resolved"
         /\ Rows(store[resource], j) # {}

\* C17: the enriched path processes the items strictly one at a time in the
\* order of the index: the fetch of an item starts only when every earlier
\* item is committed, and the one transaction that may be open is that of
\* the current item.
OneItemAtATime ==
  resource \in Enriched =>
    /\ done = 1..(i - 1)
    /\ begun \subseteq attempted
    /\ attempted \in {done, done \cup {i}}
    /\ pc = "fetchDetail" => attempted = done /\ ~txOpen
    /\ txOpen => i \in begun \ done
    /\ detailData # NoDoc => detailData.index = i

OneItemAtATimeWitness ==
  /\ resource \in Enriched
  /\ txOpen /\ i = 2 /\ done = {1}
  /\ Rows(store[resource], 1) # {}

IsStatement(e) == e.op \in {"upsert", "delete", "insert"}

\* the SQL statements issued for the current item so far, in order
Statements == SelectSeq(log, IsStatement)

\* C18: inside an item's transaction the parent upsert comes first, then the
\* delete of every child table, then the inserts, then the commit; every
\* statement is issued after beginTransaction and while the transaction is
\* open.
StatementOrder ==
  resource \in Enriched =>
    /\ pc \in {"parent", "delete", "insert", "commit"} => txOpen
    /\ Statements # <<>> =>
         /\ txOpen
         /\ Statements[1] = [op |-> "upsert", tn |-> resource]
         /\ \E b \in DOMAIN log :
              /\ log[b].op = "begin"
              /\ \A k \in DOMAIN log : IsStatement(log[k]) <=> k > b
    /\ \A k \in DOMAIN Statements :
         /\ (k >= 2 /\ k <= NTables + 1) =>
              Statements[k] = [op |-> "delete", tn |-> TableAt(k - 1)]
         /\ k > NTables + 1 => Statements[k].op = "insert"
    /\ pc \in {"insert", "commit"} => Len(Statements) >= NTables + 1

StatementOrderWitness ==
  /\ resource \in Enriched
  /\ pc = "commit"
  /\ Len(Statements) = NTables + 3

IsFetch(e) == e.op \in {"detail", "levels", "spells"}

\* the positions of the log at which beginTransaction was called
Begins == {b \in DOMAIN log : log[b].op = "begin"}

\* C19: in the enriched path every fetch of an item (its detail document,
\* its level table, its spell list) has completed before the item's
\* transaction is begun; no fetch is in flight while a transaction is open,
\* and a failed fetch leaves no transaction open.
FetchesBeforeTransaction ==
  resource \in Enriched =>
    /\ pc \in {"fetchList", "fetchDetail", "fetchLevels", "fetchSpells"} => ~txOpen
    /\ \A b \in Begins :
         /\ \A k \in DOMAIN log : IsFetch(log[k]) => k < b
         /\ log[1].op = "detail"
         /\ resource \in {"classes", "subclasses"} => log[2].op = "levels"
         /\ (resource = "classes" /\ detailData.lists["class_spells"] # <<>>) =>
              log[3].op = "spells"
    /\ error.code = "FetchError" => ~txOpen /\ error.at \notin begun

FetchesBeforeTransactionWitness ==
  /\ resource = "classes"
  /\ txOpen /\ pc = "insert"
  /\ Len(SelectSeq(log, IsFetch)) = 3

(***************************************************************************)
(* Two overlapping requests against their sequential runs.                 *)
(***************************************************************************)
\* what invocation p leaves behind in world w: its response and its tables
PairOutcome(w, p) ==
  [res |-> w.proc.res,
   rows |-> [tn \in Tables(PairResource(p)) |-> w.store[tn]]]

\* both requests were issued and neither has anything left to do
PairOver ==
  \A p \in PairProcs : Solo(p).pc \in {"done", "crashed"} /\ Solo(p).queue = <<>>

\* C20: two overlapping syncs of different resources leave the store and the
\* responses of a sequential run: each invocation ends as it does alone, or,
\* when the first of a sequence ended the process, the second as never run.
ConcurrentAsSequential ==
  PairOver =>
    \/ \A p \in PairProcs : PairOutcome(PairWorld(p), p) = PairOutcome(pair.solo[p], p)
    \/ \E p \in PairProcs :
         /\ Solo(p).pc = "crashed"
         /\ \A q \in PairProcs \ {p} :
              PairOutcome(PairWorld(q), q) = PairOutcome(NoWorld, q)

(***************************************************************************)
(* C21: no sync ever deletes a parent row: a key that has a row in the     *)
(* parent table keeps one in every step, in the committed rows and inside  *)
(* a transaction; and the rows of a key the remote index no longer lists,  *)
(* parent and children, are left exactly as they were by every step.       *)
(***************************************************************************)
Vanished == {k \in 1..MaxItems : k \notin DOMAIN remote.items}

ParentsNeverDeleted ==
  [][/\ \A k \in 1..MaxItems :
          /\ Rows(store[resource], k) # {} => Rows(store'[resource], k) # {}
          /\ (txOpen /\ txOpen' /\ Rows(work[resource], k) # {})
               => Rows(work'[resource], k) # {}
     /\ \A k \in Vanished, tn \in Tables(resource) :
          RowsOf(store'[tn], k) = RowsOf(store[tn], k)]_vars

\* a second request has succeeded after the upstream dropped an item whose
\* parent row and child rows are still stored
ParentsNeverDeletedWitness ==
  /\ pc = "done"
  /\ run = 2
  /\ res.status = 200
  /\ resource \in Enriched
  /\ \E k \in Vanished :
       /\ Rows(store[resource], k) # {}
       /\ \E tn \in ChildSet(resource) : Rows(store[tn], k) # {}

(***************************************************************************)
(* C30: owner referential integrity: from an empty store on, in every      *)
(* committed state each row of a child table of the resource carries a     *)
(* parent key for which the parent table holds a row.                      *)
(***************************************************************************)
OwnerIntegrity ==
  \A tn \in ChildSet(resource) :
    \A row \in BagToSet(store[tn]) : Rows(store[resource], row.key) # {}

\* child rows of two different parents are committed
OwnerIntegrityWitness ==
  /\ resource \in Enriched
  /\ pc = "done"
  /\ \E tn \in ChildSet(resource), ka, kb \in 1..MaxItems :
       /\ ka # kb
       /\ Rows(store[tn], ka) # {}
       /\ Rows(store[tn], kb) # {}

(***************************************************************************)
(* C25: every transaction begun is ended by exactly one commit or one      *)
(* rollback before the next item is fetched, before the response is sent   *)
(* and before the connection is closed: a commit and a rollback act only   *)
(* on an open transaction and close it; a failed statement, a thrown       *)
(* exception or a failed commit leads to the rollback, which restores the  *)
(* committed rows; and the item's promise rejects with the error that      *)
(* triggered the rollback.                                                 *)
(***************************************************************************)
Between == {"fetchDetail", "fetchLevels", "fetchSpells", "begin", "respond",
            "catch", "finally", "done"}

TransactionTerminated ==
  [][/\ (pc' \in Between) => ~txOpen'
     /\ (pc \in {"commit", "rollback"}) => txOpen
     /\ (txOpen /\ ~txOpen') =>
          \/ pc = "commit" /\ done' = done \cup {i} /\ error' = error
          \/ pc = "rollback" /\ pc' = "catch" /\ store' = store
     /\ (txOpen /\ error' # error) => (pc' = "rollback" /\ txOpen' /\ error'.at = i)
     /\ (pc = "rollback") => (error' = error /\ error # NoError)]_vars

\* the first item is committed, the commit of the second has failed and its
\* transaction is rolled back
TransactionTerminatedWitness ==
  /\ pc = "catch"
  /\ ~txOpen
  /\ done = {1}
  /\ begun = {1, 2}
  /\ error = Err(2, "ER_COMMIT", "none")

(***************************************************************************)
(* C24: the states an item of an enriched resource passes through.         *)
(***************************************************************************)
\* the parent record of the current item has not been built yet
Unmapped == pc \in {"fetchDetail", "fetchLevels", "fetchSpells", "begin", "parent"}

Phase ==
  CASE pc \in {"fetchDetail", "fetchLevels", "fetchSpells"} -> "Fetching"
    [] pc = "begin" -> "Opening"
    [] pc = "parent" -> "MappingAndParent"
    [] pc \in {"delete", "insert"} -> "WritingChildren"
    [] pc = "commit" -> "Committing"
    [] pc = "rollback" -> "RolledBack"
    [] pc = "catch" -> "Failed"
    [] OTHER -> "Outside"

InTransaction == {"MappingAndParent", "WritingChildren", "Committing", "RolledBack"}

PhaseOrder ==
  {<<"Outside", "Fetching">>, <<"Fetching", "Opening">>, <<"Fetching", "Failed">>,
   <<"Opening", "MappingAndParent">>, <<"Opening", "Failed">>,
   <<"MappingAndParent", "WritingChildren">>, <<"MappingAndParent", "RolledBack">>,
   <<"WritingChildren", "Committing">>, <<"WritingChildren", "RolledBack">>,
   <<"Committing", "Fetching">>, <<"Committing", "Outside">>,
   <<"Committing", "RolledBack">>, <<"RolledBack", "Failed">>,
   <<"Failed", "Outside">>, <<"Outside", "Failed">>}

\* C24 as stated: the mapping of the detail document into the parent record
\* is completed before the transaction is opened, so a transaction is never
\* open on a document that is still to be mapped.
MappingBeforeOpen == (resource \in Enriched /\ txOpen) => ~Unmapped

\* C24, amended: an item passes Fetching, the opening of the transaction,
\* the mapping and the parent write inside the open transaction, the child
\* writes and the commit, in this order; the transaction is open exactly
\* from the mapping to the end of the commit or of the rollback; and every
\* error met inside it, a mapping error included, leads through the rollback
\* to the failure of the invocation.
ItemPhases ==
  [][(resource \in Enriched) =>
       /\ Phase' # Phase => <<Phase, Phase'>> \in PhaseOrder
       /\ txOpen' <=> (Phase' \in InTransaction)
       /\ (txOpen /\ error' # error) => Phase' = "RolledBack"
       /\ (pc = "begin" /\ txOpen') => (Unmapped')]_vars

\* the record of the second item could not be built: its transaction is open
\* and about to be rolled back, the first item is committed
ItemPhasesWitness ==
  /\ resource \in Enriched
  /\ pc = "rollback"
  /\ txOpen
  /\ ~detailData.req
  /\ error = Err(2, "TypeError", "none")
  /\ done = {1}

(***************************************************************************)
(* C28: in the generic path no upsert rejection is ever unobserved: while  *)
(* the loop is still fetching, Promise.all has not been called and no      *)
(* promise has a handler, so no promise may be rejected yet.               *)
(***************************************************************************)
NoUnobservedRejection ==
  (resource \notin Enriched /\ pc = "fetchDetail") => Rejected = {}

(***************************************************************************)
(* C29: once an invocation has sent its response, 200 or 500, every        *)
(* database write it has issued has completed: no transaction is open and  *)
(* no upsert is still queued on its connection.                            *)
(***************************************************************************)
WritesDoneAtResponse ==
  (pc \in {"finally", "done"}) =>
    /\ ~txOpen
    /\ \A k \in DOMAIN queue : queue[k].item = 0

(***************************************************************************)
(* C26: every sync invocation sends exactly one HTTP response: never more  *)
(* than one, and one by the time the invocation is over.                   *)
(***************************************************************************)
ExactlyOneResponse ==
  /\ sent <= 1
  /\ Over => sent = 1

(***************************************************************************)
(* The steps of the server and of its database connection, as opposed to   *)
(* the arrival of a request and the changes of the upstream.  Node's event *)
(* loop runs every callback that is ready, and every network call and      *)
(* database callback is assumed to complete: a step of the invocation that *)
(* stays possible is eventually taken.                                     *)
(***************************************************************************)
Progress ==
  \/ ConnectOk \/ ConnectFail \/ FetchListOk \/ FetchListFail
  \/ FetchDetailOk \/ FetchDetailFail \/ FetchLevelsOk \/ FetchSpellsOk \/ FetchAuxFail
  \/ MalformedList \/ MalformedDetail \/ MalformedLevels \/ MalformedSpells
  \/ MapFail \/ LevelsThrow \/ GMapFail \/ GMalformedDetail \/ DbExecCrash
  \/ BeginOk \/ BeginFail \/ ParentUpsert \/ DeleteChild \/ SkipChild \/ InsertChild
  \/ InsertDup \/ QueryFail \/ CommitOk \/ CommitFail \/ Rollback
  \/ GFetchDetailOk \/ GFetchDetailFail \/ DbExecOk \/ DbExecFail \/ DbQuit
  \/ AwaitAllOk \/ AwaitAllFail \/ Respond \/ Catch \/ Finally

SpecFair == Init /\ [][Next]_vars /\ WF_vars(Progress)

(***************************************************************************)
(* C27: termination: when every network call and every database callback   *)
(* eventually completes, an invocation that has started eventually sends   *)
(* its response and gets through its finally block.                        *)
(***************************************************************************)
Terminates == (pc = "connect") ~> (pc = "done" /\ sent = 1)

(***************************************************************************)
(* GET /sync-skills on documents spelled out in full.  A text is the       *)
(* sequence of its pieces; a row of skills is the record of its columns.   *)
(***************************************************************************)
JoinPlain(paras, sep) ==
  IF paras = <<>> THEN <<>>
  ELSE [k \in 1..Len(paras) |-> paras[k]]

\* Array.prototype.join: the elements with sep between neighbours
RECURSIVE Join(_, _)
Join(paras, sep) ==
  IF paras = <<>> THEN <<>>
  ELSE IF Len(paras) = 1 THEN <<paras[1]>>
  ELSE <<paras[1], sep>> \o Join(Tail(paras), sep)

\* the recordBuilder of /sync-skills: newRecord
SkillsRecord(data) ==
  [index |-> data.index,
   name |-> data.name,
   description |-> Join(data.desc, "\n\n"),
   ability_score |-> data.ability_score.name]

\* `${resourceName} synced successfully! ${queryPromises.length} records processed.`
SyncedMessage(resourceName, n) ==
  <<resourceName, " synced successfully! ", ToString(n), " records processed.">>

\* the request arrives; the upstream lists some skills, each with its document
SkillsStart ==
  /\ skill.pc \in {"idle", "done"}
  /\ skill.run < MaxSkillRuns
  /\ LET names == [acrobatics |-> "Acrobatics", stealth |-> "Stealth"]
         descs == UNION {[1..n -> {"para1", "para2"}] : n \in 0..MaxParas}
         lists == {l \in UNION {[1..n -> DOMAIN names] : n \in 0..MaxSkills} :
                     \A a, b \in DOMAIN l : a # b => l[a] # l[b]}
     IN  \E l \in lists :
         \E d \in [DOMAIN l -> descs], a \in [DOMAIN l -> {"DEX", "STR"}],
            bad \in 0..Len(l) :
           skill' = [skill EXCEPT
                       !.pc = "loop", !.run = @ + 1, !.at = 1, !.res = NoSkill.res,
                       !.docs = [j \in DOMAIN l |->
                                   [index |-> l[j], name |-> names[l[j]],
                                    desc |-> d[j], ability_score |-> [name |-> a[j]],
                                    req |-> j # bad]]]
  /\ UNCHANGED <<single, pair, twin, panel>>

\* an iteration of the loop: recordBuilder, then the upsert, executed in turn
SkillsItem ==
  /\ skill.pc = "loop"
  /\ skill.at <= Len(skill.docs)
  /\ skill.docs[skill.at].req
  /\ LET newRecord == SkillsRecord(skill.docs[skill.at])
     IN  skill' = [skill EXCEPT
                     !.at = @ + 1,
                     !.rows = {r \in @ : r.index # newRecord.index} \cup {newRecord}]
  /\ UNCHANGED <<single, pair, twin, panel>>

\* the document lacks desc or ability_score: recordBuilder throws, the catch
\* block answers
SkillsMapFail ==
  /\ skill.pc = "loop"
  /\ skill.at <= Len(skill.docs)
  /\ ~skill.docs[skill.at].req
  /\ skill' = [skill EXCEPT
                 !.pc = "done",
                 !.res = [status |-> 500, success |-> FALSE, message |-> <<"TypeError">>]]
  /\ UNCHANGED <<single, pair, twin, panel>>

\* Promise.all has resolved: res.status(200).json(...)
SkillsRespond ==
  /\ skill.pc = "loop"
  /\ skill.at > Len(skill.docs)
  /\ skill' = [skill EXCEPT
                 !.pc = "done",
                 !.res = [status |-> 200, success |-> TRUE,
                          message |-> SyncedMessage("skills", skill.at - 1)]]
  /\ UNCHANGED <<single, pair, twin, panel>>

NextSkills == SkillsStart \/ SkillsItem \/ SkillsMapFail \/ SkillsRespond

InitSkills == Init /\ resource = "skills"

SpecSkills == InitSkills /\ [][NextSkills]_vars

(***************************************************************************)
(* C22: when every detail of the n skills the index lists maps and the     *)
(* sync answers, the table holds exactly one row for each entry, with the  *)
(* entry's index and name, with its desc paragraphs in order and the       *)
(* blank-line separator between neighbouring paragraphs as description and *)
(* with ability_score.name as ability_score; the answer is a 200 whose     *)
(* message is "skills synced successfully! n records processed.".          *)
(***************************************************************************)
Decimal(n) == CASE n = 0 -> "0" [] n = 1 -> "1" [] n = 2 -> "2"

Joined(text, paras) ==
  /\ Len(text) = IF paras = <<>> THEN 0 ELSE 2 * Len(paras) - 1
  /\ \A k \in DOMAIN text :
       text[k] = IF k % 2 = 1 THEN paras[(k + 1) \div 2] ELSE "\n\n"

AllMap == \A j \in DOMAIN skill.docs : skill.docs[j].req

SkillsResult ==
  (skill.pc = "done" /\ AllMap) =>
    /\ \A j \in DOMAIN skill.docs :
         LET doc == skill.docs[j]
             hit == {r \in skill.rows : r.index = doc.index}
         IN  /\ Cardinality(hit) = 1
             /\ \A r \in hit :
                  /\ r.name = doc.name
                  /\ Joined(r.description, doc.desc)
                  /\ r.ability_score = doc.ability_score.name
    /\ skill.res = [status |-> 200, success |-> TRUE,
                    message |-> <<"skills", " synced successfully! ",
                                  Decimal(Len(skill.docs)), " records processed.">>]

\* the concrete scenario: a second request finds Acrobatics with two
\* paragraphs and DEX, and answers 200 for one record
SkillsResultWitness ==
  /\ skill.pc = "done"
  /\ skill.run = 2
  /\ skill.res.status = 200
  /\ Len(skill.docs) = 1
  /\ skill.docs[1].index = "acrobatics"
  /\ skill.docs[1].desc = <<"para1", "para2">>
  /\ [index |-> "acrobatics", name |-> "Acrobatics",
      description |-> <<"para1", "\n\n", "para2">>, ability_score |-> "DEX"]
       \in skill.rows

(***************************************************************************)
(* The control panel of public/index.html.  panel.loop[r] is the position  *)
(* in allButtons of the button whose sync run r of Sync All is awaiting    *)
(* (0: the run is not under way); panel.inFlight holds the paths whose     *)
(* individual sync is awaiting its answer; panel.disabled holds the        *)
(* disabled buttons;                                                       *)
(* panel.status is the last line that Sync All or Clear Database has       *)
(* written to the status panel.                                            *)
(***************************************************************************)
syncEndpoints ==
  <<"ability-scores", "alignments", "conditions", "damage-types",
    "equipment-categories", "languages", "magic-schools", "weapon-properties",
    "skills", "rule-sections", "rules", "proficiencies", "traits", "feats",
    "equipment", "magic-items", "backgrounds", "races", "subraces", "features",
    "spells", "subclasses", "classes", "monsters">>

\* one button per endpoint, in the order of syncEndpoints
allButtons == syncEndpoints

\* the resources whose natural key the rows written by /sync-<path> carry
References(path) ==
  CASE path = "rules" -> {"rule-sections"}
    [] path = "subraces" -> {"races"}
    [] path = "equipment" -> {"equipment-categories"}
    [] path = "magic-items" -> {"equipment-categories"}
    [] path = "proficiencies" -> {"classes", "races"}
    [] path = "races" -> {"proficiencies", "languages", "traits"}
    [] path = "spells" -> {"magic-schools", "classes", "subclasses"}
    [] path = "subclasses" -> {"classes", "spells"}
    [] path = "classes" -> {"spells", "equipment"}
    [] path = "traits" -> {"races", "subraces", "proficiencies"}
    [] path = "monsters" -> {"proficiencies", "conditions"}
    [] OTHER -> {}

\* the runs of handleSyncAll that are awaiting a fetch
Running == {r \in 1..MaxSyncAll : panel.loop[r] > 0}

\* the requests of the panel that are awaiting their answer
Pending == Cardinality(panel.inFlight) + Cardinality(Running)

\* a click on the button of path b: handleSync, up to the await of the fetch
handleSync(b) ==
  /\ b \notin panel.disabled
  /\ b \notin panel.inFlight
  /\ Pending < MaxInFlight
  /\ panel' = [panel EXCEPT
                 !.disabled = @ \cup {"sync-all-btn", "clear-db-btn", b},
                 !.inFlight = @ \cup {b}]
  /\ UNCHANGED <<single, pair, twin, skill>>

\* the fetch of an individual sync settles: performSync's finally, then the
\* rest of handleSync
handleSyncResume(b) ==
  /\ b \in panel.inFlight
  /\ panel' = [panel EXCEPT
                 !.disabled = @ \ {b, "sync-all-btn", "clear-db-btn"},
                 !.inFlight = @ \ {b}]
  /\ UNCHANGED <<single, pair, twin, skill>>

\* a click on Sync All starts run r of handleSyncAll, up to the await of the
\* first fetch
handleSyncAll(r) ==
  /\ "sync-all-btn" \notin panel.disabled
  /\ panel.loop[r] = 0
  /\ \A q \in 1..(r - 1) : panel.loop[q] > 0
  /\ Pending < MaxInFlight
  /\ panel' = [panel EXCEPT
                 !.disabled = Range(allButtons) \cup {"sync-all-btn", "clear-db-btn"},
                 !.successCount[r] = 0,
                 !.loop[r] = 1]
  /\ UNCHANGED <<single, pair, twin, skill>>

\* the fetch run r of Sync All awaits settles: performSync's finally, then
\* the loop goes on to the next button or handleSyncAll finishes
handleSyncAllResume(r) ==
  /\ panel.loop[r] > 0
  /\ \E ok \in BOOLEAN :
       LET at == panel.loop[r]
           count == IF ok THEN panel.successCount[r] + 1 ELSE panel.successCount[r]
       IN  IF ok /\ at < Len(allButtons)
             THEN panel' = [panel EXCEPT
                              !.successCount[r] = count,
                              !.loop[r] = at + 1,
                              !.disabled = (@ \ {allButtons[at]})
                                             \cup {allButtons[at + 1]}]
             ELSE panel' = [panel EXCEPT
                              !.successCount[r] = 0,
                              !.loop[r] = 0,
                              !.disabled = {},
                              !.status = IF count = Len(allButtons) THEN "completed"
                                         ELSE "aborted"]
  /\ UNCHANGED <<single, pair, twin, skill>>

\* a click on Clear Database: a message in the status panel, nothing else
handleClearDatabase ==
  /\ "clear-db-btn" \notin panel.disabled
  /\ panel' = [panel EXCEPT !.status = "info"]
  /\ UNCHANGED <<single, pair, twin, skill>>

NextPanel ==
  \/ \E b \in Range(allButtons) : handleSync(b)
  \/ \E b \in Range(allButtons) : handleSyncResume(b)
  \/ \E r \in 1..MaxSyncAll : handleSyncAll(r)
  \/ \E r \in 1..MaxSyncAll : handleSyncAllResume(r)
  \/ handleClearDatabase

InitPanel == Init /\ resource = "skills"

SpecPanel == InitPanel /\ [][NextPanel]_vars

(***************************************************************************)
(* C23: Sync All issues its requests in a dependency-respecting order:     *)
(* when it requests the sync of a resource whose rows carry the natural    *)
(* key of another resource, the other resource stands earlier in           *)
(* syncEndpoints (and so has been synchronised already).                   *)
(***************************************************************************)
DependencyOrder ==
  \A r \in Running :
    \A ref \in References(allButtons[panel.loop[r]]) :
      \E k \in 1..(panel.loop[r] - 1) : syncEndpoints[k] = ref

(***************************************************************************)
(* C33: Sync All performs its syncs strictly one after another: at most    *)
(* one request issued by Sync All is awaiting its answer at any time.      *)
(***************************************************************************)
OneSyncAllRequest == Cardinality(Running) <= 1

(***************************************************************************)
(* C34: all buttons are disabled during the full sync: while Sync All is   *)
(* under way every individual sync button, the Sync All button and the     *)
(* Clear Database button are disabled.                                     *)
(***************************************************************************)
AllDisabledDuringSyncAll ==
  Running # {} =>
    panel.disabled = Range(allButtons) \cup {"sync-all-btn", "clear-db-btn"}

(***************************************************************************)
(* C35: whenever an individually triggered sync is awaiting its answer,    *)
(* the Sync All button and the Clear Database button are disabled.         *)
(***************************************************************************)
MastersDisabledDuringSync ==
  panel.inFlight # {} => {"sync-all-btn", "clear-db-btn"} \subseteq panel.disabled

(***************************************************************************)
(* C31: frame: a sync of resource R changes only R's parent table and R's  *)
(* own child tables, and in them only rows whose parent key is the key of  *)
(* an item processed in this run: every statement names a table of R, the  *)
(* rows of every key the run has not processed are as they were when the   *)
(* request arrived, and an open transaction differs from the committed     *)
(* rows only in the rows of its own item.                                  *)
(***************************************************************************)
\* the keys of the items for which this run has issued a statement
Reached == IF resource \in Enriched THEN begun ELSE DOMAIN promises

Frame ==
  /\ DOMAIN store = Tables(resource)
  /\ touched \subseteq Tables(resource)
  /\ \A n \in DOMAIN log : IsStatement(log[n]) => log[n].tn \in Tables(resource)
  /\ \A tn \in Tables(resource), k \in 1..MaxItems :
       /\ k \notin Reached => RowsOf(store[tn], k) = RowsOf(snap[tn], k)
       /\ (txOpen /\ k # i) => RowsOf(work[tn], k) = RowsOf(store[tn], k)

\* a second request has rewritten the rows of its first item and has failed
\* before the second, whose rows are stored as the first request left them
FrameWitness ==
  /\ pc = "done"
  /\ run = 2
  /\ res.status = 500
  /\ Reached = {1}
  /\ RowsOf(store[resource], 1) # RowsOf(snap[resource], 1)
  /\ Rows(store[resource], 2) # {}
  /\ \E tn \in ChildSet(resource) : Rows(store[tn], 2) # {}

(***************************************************************************)
(* Two requests for the same enriched resource.                            *)
(***************************************************************************)
TwinsDone == \A p \in PairProcs : twin.proc[p].pc = "done"

\* the store a single sync of the remote leaves when it answers 200
TwinStoreIsSingle ==
  /\ twin.store[resource] = SetToBag({ParentRecord(DocOf(j)) : j \in Items})
  /\ \A tn \in ChildSet(resource), k \in 1..MaxItems :
       RowsOf(twin.store[tn], k) =
         IF k \in Items THEN Image(tn, DocOf(k)) ELSE EmptyBag

\* C32: two invocations of the same enriched resource that overlap on an
\* unchanged remote, each on its own connection with atomic and isolated
\* transactions, never meet a duplicate-key failure, both answer 200, and the
\* final store is the one a single sync leaves, with every child row of
\* every item, whatever the interleaving of their item transactions.
TwinsAsOne ==
  /\ \A p \in PairProcs : twin.proc[p].error.code # "ER_DUP_ENTRY"
  /\ TwinsDone =>
       /\ \A p \in PairProcs : twin.proc[p].res.status = 200
       /\ TwinStoreIsSingle

\* the same on the remotes on which a single sync succeeds: no list feeding
\* a table without the Set guard names a key twice
TwinsAsOneOnPlainLists ==
  PlainListsRepeatFree =>
    /\ \A p \in PairProcs : twin.proc[p].error.code # "ER_DUP_ENTRY"
    /\ TwinsDone =>
         /\ \A p \in PairProcs : twin.proc[p].res.status = 200
         /\ TwinStoreIsSingle

TwinsAsOneOnPlainListsWitness ==
  /\ TwinsDone /\ twin.met /\ PlainListsRepeatFree
  /\ Len(remote.items) = MaxItems
  /\ \E tn \in ChildSet(resource) : Len(remote.items[1][tn]) = 2

====
